---- MODULE Spec2Model ----
(***************************************************************************)
(* TeNeS: the driver tenes() of src/src/tenes.cpp and the methods of the   *)
(* class TeNeS it runs (initialize_tensors, simple_update, full_update,    *)
(* save_tensors, measure and the measure_* functions).                     *)
(*                                                                         *)
(* A dense tensor is modelled by the identity of the call that produced    *)
(* it: <<clock, out>> is output `out` of the call made at time `clock`.    *)
(* <<0, 0>> is a tensor as allocated by initialize_tensors.  A double is   *)
(* modelled in units of 10^-8 (1.0 is 100000000).                          *)
(***************************************************************************)
EXTENDS Integers, Naturals, Sequences, FiniteSets, TLC

VARIABLES
  LX, LY,                 \* lattice.LX, lattice.LY
  peps_parameters,        \* the options the driver reads
  simple_updates,         \* NNOperators: sequence of [source_site, source_leg]
  full_updates,
  onesite_operators,      \* Operators: sequence of [group, source_site, val]
  twosite_operators,      \* Operators: sequence of [group, source_site, dx, dy, ops_indices]
  corparam,               \* [r_max, operators]
  Tn, eTt, eTr, eTb, eTl, C1, C2, C3, C4,
  lambda_tensor,
  fs,                     \* the checkpoint directory on disk
  pc, int_tau, iup,       \* position of the driver, Trotter step, index in the gate list
  run,                    \* 1 in the first run of the program, 2 in the run that loads what it saved
  clock,                  \* number of tensor-producing calls made so far
  trace,                  \* the calls made in this run, in order
  preSimple,              \* Tn and lambda_tensor on entry to simple_update
  atSave,                 \* the tensor store as held when save_tensors wrote it
  local_obs,              \* result of measure_onesite
  onesite_sum,            \* the per-group sums of save_onesite
  loc_obs,                \* the per-group sums of measure()
  iop,                    \* index in the loop of measure_twosite
  norms,                  \* the cache of normalisations of measure_twosite
  ret,                    \* result of measure_twosite
  contractions,           \* the contractions measure_twosite performed, in order
  warnings,               \* the operators measure_twosite warned about
  correlations,           \* result of measure_correlation
  phases,                 \* the phases of the run entered so far, in order
  simple_calls,           \* the calls of Simple_update_bond, until optimize() moves on
  full_calls,             \* the calls of Full_update_bond: what each was handed and wrote
  ireport, next_report_step,  \* the progress counters of the update loop
  reports,                \* the progress lines printed: [phase, int_tau]
  energy,                 \* the energy measure() computed
  energy_dat,             \* the contents of energy.dat
  faults,                 \* the reads outside a container made so far
  argv, input,            \* the command line, and the input file as found on disk
  exit_code, cout         \* what main_impl returned and printed

cfgVars == <<LX, LY, peps_parameters, simple_updates, full_updates,
             onesite_operators, twosite_operators, corparam>>
envVars == <<eTt, eTr, eTb, eTl, C1, C2, C3, C4>>
obsVars == <<local_obs, onesite_sum, loc_obs, iop, norms, ret, contractions,
             warnings, correlations>>
histVars == <<phases, simple_calls, full_calls, reports>>
reportVars == <<ireport, next_report_step>>
outVars == <<energy, energy_dat, faults>>
mainVars == <<argv, input, exit_code, cout>>
vars == <<cfgVars, Tn, envVars, lambda_tensor, fs, pc, int_tau, iup, run,
          clock, trace, preSimple, atSave, obsVars, histVars, reportVars,
          outVars, mainVars>>

----------------------------------------------------------------------------
(* Bounds of the model *)
MaxL == 2            \* LX and LY are 1 or MaxL
MaxSimpleStep == 2   \* num_simple_step is 0, 1 or MaxSimpleStep
MaxFullStep == 1     \* num_full_step is 0 or MaxFullStep
MaxSingular == 2     \* singular values of a two-site operator: 1..MaxSingular
MaxRadius == 3       \* corparam.r_max ranges over 1..MaxRadius

(* Program constants *)
nleg == 4
nmax == 4

N_UNIT == LX * LY
Sites == 0 .. (N_UNIT - 1)
Legs == 0 .. (nleg - 1)

(* lattice.virtual_dims[i][j]: every virtual leg has this dimension *)
virtual_dims == 2

----------------------------------------------------------------------------
(* Lattice: periodic LX x LY unit cell, site index x + y*LX, y upwards;    *)
(* legs 0 left, 1 top, 2 right, 3 bottom.                                  *)
lattice_x(site) == site % LX
lattice_y(site) == site \div LX
lattice_index(x, y) == x + y * LX
lattice_other(site, dx, dy) ==
  lattice_index((lattice_x(site) + dx) % LX, (lattice_y(site) + dy) % LY)
lattice_neighbor(site, leg) ==
  CASE leg = 0 -> lattice_other(site, -1, 0)
    [] leg = 1 -> lattice_other(site, 0, 1)
    [] leg = 2 -> lattice_other(site, 1, 0)
    [] leg = 3 -> lattice_other(site, 0, -1)

is_horizontal(up) == up.source_leg % 2 = 0

Bond(s, l) == [source_site |-> s, source_leg |-> l]

----------------------------------------------------------------------------
(* Events of the trace *)
Ev(e, s, l) == [ev |-> e, site |-> s, leg |-> l]

MoveEvents == {"Left_move", "Right_move", "Top_move", "Bottom_move"}
PassEvents == MoveEvents \cup {"update_CTM"}
ObservableEvents == {"measure_onesite", "measure_twosite", "measure_correlation"}

New(out) == <<clock + 1, out>>
AllSites(t) == [i \in Sites |-> t]

----------------------------------------------------------------------------
(* The tensor store as one record, and the environment moves on it *)
Store == [Tn |-> Tn, eTt |-> eTt, eTr |-> eTr, eTb |-> eTb, eTl |-> eTl,
          C1 |-> C1, C2 |-> C2, C3 |-> C3, C4 |-> C4]

SetStore(s) ==
  /\ Tn' = s.Tn
  /\ eTt' = s.eTt /\ eTr' = s.eTr /\ eTb' = s.eTb /\ eTl' = s.eTl
  /\ C1' = s.C1 /\ C2' = s.C2 /\ C3' = s.C3 /\ C4' = s.C4

(* Calc_CTM_Environment: every corner and edge of every site is recomputed *)
update_CTM(s, t) ==
  [s EXCEPT !.eTt = AllSites(t), !.eTr = AllSites(t), !.eTb = AllSites(t),
            !.eTl = AllSites(t), !.C1 = AllSites(t), !.C2 = AllSites(t),
            !.C3 = AllSites(t), !.C4 = AllSites(t)]

InColumn(f, ix, t) == [i \in Sites |-> IF lattice_x(i) = ix % LX THEN t ELSE f[i]]
InRow(f, iy, t) == [i \in Sites |-> IF lattice_y(i) = iy % LY THEN t ELSE f[i]]

(* A directional move absorbs column (row) ix and yields the boundary      *)
(* tensors of the next column (row) on its way.                            *)
Left_move(s, ix, t) ==
  [s EXCEPT !.C1 = InColumn(@, ix + 1, t), !.C4 = InColumn(@, ix + 1, t),
            !.eTl = InColumn(@, ix + 1, t)]
Right_move(s, ix, t) ==
  [s EXCEPT !.C2 = InColumn(@, ix - 1, t), !.C3 = InColumn(@, ix - 1, t),
            !.eTr = InColumn(@, ix - 1, t)]
Top_move(s, iy, t) ==
  [s EXCEPT !.C1 = InRow(@, iy - 1, t), !.C2 = InRow(@, iy - 1, t),
            !.eTt = InRow(@, iy - 1, t)]
Bottom_move(s, iy, t) ==
  [s EXCEPT !.C3 = InRow(@, iy + 1, t), !.C4 = InRow(@, iy + 1, t),
            !.eTb = InRow(@, iy + 1, t)]

----------------------------------------------------------------------------
(* Text of a double written by operator<< of a stream left at its default  *)
(* precision: the value rounded to stream_precision significant digits,    *)
(* <<mantissa, shift>> standing for the digits mantissa followed by shift  *)
(* zeros (in units of 10^-8).  operator>> reads the number the text says.  *)
stream_precision == 6

RECURSIVE Pow10(_)
Pow10(n) == IF n = 0 THEN 1 ELSE 10 * Pow10(n - 1)

RECURSIVE NumDigits(_)
NumDigits(v) == IF v < 10 THEN 1 ELSE 1 + NumDigits(v \div 10)

WriteDouble(v) ==
  LET nd == NumDigits(v) IN
  IF nd <= stream_precision THEN <<v, 0>>
  ELSE LET p == Pow10(nd - stream_precision) IN <<(v + p \div 2) \div p, nd - stream_precision>>

ReadDouble(text) == text[1] * Pow10(text[2])


(* The files save_tensors writes: the dense tensors in the library's       *)
(* binary dump, lambda_<i>.dat as text, one value per line.                *)
CheckpointOf(s, lam) ==
  [T |-> s.Tn, Et |-> s.eTt, Er |-> s.eTr, Eb |-> s.eTb, El |-> s.eTl,
   C1 |-> s.C1, C2 |-> s.C2, C3 |-> s.C3, C4 |-> s.C4,
   lambda |-> [i \in Sites |-> [j \in Legs |->
                 [k \in 1..virtual_dims |-> WriteDouble(lam[i][j][k])]]]]

LoadStore(ck) ==
  [Tn |-> ck.T, eTt |-> ck.Et, eTr |-> ck.Er, eTb |-> ck.Eb, eTl |-> ck.El,
   C1 |-> ck.C1, C2 |-> ck.C2, C3 |-> ck.C3, C4 |-> ck.C4]

LoadLambda(ck) ==
  [i \in Sites |-> [j \in Legs |->
     [k \in 1..virtual_dims |-> ReadDouble(ck.lambda[i][j][k])]]]

One == Pow10(8)

(* The spectra the bond kernel may return *)
Spectrum(a, b) == [k \in 1..virtual_dims |-> IF k = 1 THEN a ELSE b]
Spectra == {Spectrum(One, 50000000), Spectrum(70710678, 12345678)}

InitialStore ==
  [Tn |-> AllSites(<<0, 1>>), eTt |-> AllSites(<<0, 0>>), eTr |-> AllSites(<<0, 0>>),
   eTb |-> AllSites(<<0, 0>>), eTl |-> AllSites(<<0, 0>>), C1 |-> AllSites(<<0, 0>>),
   C2 |-> AllSites(<<0, 0>>), C3 |-> AllSites(<<0, 0>>), C4 |-> AllSites(<<0, 0>>)]

InitialLambda == [i \in Sites |-> [j \in Legs |-> [k \in 1..virtual_dims |-> One]]]

(* The checkpoint directory: whether it exists, and the files in it *)
Dir(ck) == [exists |-> TRUE, files |-> ck]
NoDir == [exists |-> FALSE, files |-> CheckpointOf(InitialStore, InitialLambda)]

----------------------------------------------------------------------------
(* Inputs of the driver *)
BondLists ==
  {<<>>, <<Bond(0, 2)>>, <<Bond(N_UNIT - 1, 0), Bond(N_UNIT - 1, 3)>>}

OnesiteOp(g, s, v) == [group |-> g, source_site |-> s, val |-> v]
TwositeOp(g, s, x, y, ix) ==
  [group |-> g, source_site |-> s, dx |-> x, dy |-> y, ops_indices |-> ix]

DriverOnesite == <<OnesiteOp(0, 0, 1)>>
DriverTwosite ==
  <<TwositeOp(0, 0, 1, 0, <<>>), TwositeOp(0, 0, nmax, 0, <<>>),
    TwositeOp(0, 0, 0, LY, <<0, 0>>), TwositeOp(0, 0, 1, -1, <<>>)>>
DriverCorparam == [r_max |-> 1, operators |-> <<<<0, 0>>>>]

NoneYet == <<>>

(* peps_parameters.print_level: a level below PrintLevel::info, and info.  *)
(* The code only ever asks print_level >= PrintLevel::info.                *)
PrintLevels == {"warn", "info"}
AtLeastInfo(level) == level = "info"

(* the tables of an input file *)
Tables == {"parameter", "lattice", "evolution", "observable", "correlation"}

(* a text file of the output directory: whether it exists, and its lines *)
File(lines) == [exists |-> TRUE, lines |-> lines]
NoFile == [exists |-> FALSE, lines |-> <<>>]

(* `energy`: the map whose values were added up, or what a read outside    *)
(* twosite_obs left in it                                                  *)
EnergyOf(terms) == [valid |-> TRUE, terms |-> terms]
GarbageEnergy == [valid |-> FALSE, terms |-> <<>>]
NoEnergy == [valid |-> FALSE, terms |-> <<>>]

(* a read outside a container: which container, with which index *)
Fault(what, index, size) == [what |-> what, index |-> index, size |-> size]

(* what undefined behaviour does to the process: it dies, or it goes on    *)
(* with whatever the read returned                                         *)
UndefinedOutcomes == {"crash", "garbage"}

(* a process before it has printed, reported or measured anything *)
RunInit ==
  /\ simple_calls = <<>> /\ full_calls = <<>> /\ reports = <<>>
  /\ ireport = 1 /\ next_report_step = 0
  /\ energy = NoEnergy /\ energy_dat = NoFile /\ faults = <<>>

(* main_impl has handed a complete input file to tenes() *)
MainCalledTenes ==
  /\ argv = <<"input.toml">>
  /\ input = [exists |-> TRUE, tables |-> Tables, read |-> TRUE]
  /\ exit_code = -1 /\ cout = <<>>

ObsInit ==
  /\ local_obs = NoneYet /\ onesite_sum = NoneYet /\ loc_obs = NoneYet
  /\ iop = 1 /\ norms = {} /\ ret = NoneYet /\ contractions = <<>>
  /\ warnings = <<>> /\ correlations = <<>>

Init ==
  /\ LX \in {1, MaxL} /\ LY \in {1, MaxL}
  /\ peps_parameters \in
       [num_simple_step : {0, 1, MaxSimpleStep}, num_full_step : {0, MaxFullStep},
        Full_Use_FastFullUpdate : BOOLEAN, print_level : {"info"},
        tensor_load_dir : {"", "ckpt"}, tensor_save_dir : {"", "ckpt"}]
  /\ simple_updates \in BondLists
  /\ full_updates \in BondLists
  /\ onesite_operators = DriverOnesite
  /\ twosite_operators = DriverTwosite
  /\ corparam = DriverCorparam
  /\ fs \in IF peps_parameters.tensor_load_dir = "" THEN {NoDir}
            ELSE {NoDir, Dir(CheckpointOf([InitialStore EXCEPT !.Tn = AllSites(<<0, 2>>)],
                                          InitialLambda))}
  /\ Tn = InitialStore.Tn
  /\ eTt = InitialStore.eTt /\ eTr = InitialStore.eTr /\ eTb = InitialStore.eTb
  /\ eTl = InitialStore.eTl /\ C1 = InitialStore.C1 /\ C2 = InitialStore.C2
  /\ C3 = InitialStore.C3 /\ C4 = InitialStore.C4
  /\ lambda_tensor = InitialLambda
  /\ pc = "construct" /\ int_tau = 0 /\ iup = 1 /\ run = 1 /\ clock = 0
  /\ trace = <<>> /\ preSimple = NoneYet /\ atSave = NoneYet
  /\ ObsInit
  /\ RunInit /\ phases = <<>>
  /\ MainCalledTenes

----------------------------------------------------------------------------
(* TeNeS::TeNeS: the constructor runs initialize_tensors, which allocates  *)
(* the store and either draws Tn at random or loads the checkpoint; a      *)
(* configured load directory that does not exist throws.                   *)
(* tenes() then calls optimize(), which enters simple_update: the new run  *)
(* is in its second phase and the progress counters are set.               *)

(* int n = x, x a double: the fraction is dropped, towards zero *)
TruncDiv(a, b) == IF a >= 0 THEN a \div b ELSE -((-a) \div b)

(* int next_report_step = 0.1 * ireport * nsteps - 1, in tenths *)
report_step(ir, nsteps) == TruncDiv(ir * nsteps - 10, 10)
first_report_step(nsteps) == report_step(1, nsteps)

(* a constructor that does not look whether the directory exists *)
LoadDirNeverMissing == FALSE

LoadDirMissing == peps_parameters.tensor_load_dir /= "" /\ ~fs.exists

Construct ==
  /\ pc = "construct"
  /\ IF peps_parameters.tensor_load_dir = ""
     THEN /\ SetStore(InitialStore)
          /\ lambda_tensor' = InitialLambda
          /\ pc' = "simple_update"
     ELSE IF LoadDirMissing
     THEN /\ SetStore(InitialStore)
          /\ lambda_tensor' = InitialLambda
          /\ pc' = "aborted"
     ELSE /\ SetStore(LoadStore(fs.files))
          /\ lambda_tensor' = LoadLambda(fs.files)
          /\ pc' = "simple_update"
  /\ preSimple' = [Tn |-> Tn', lambda_tensor |-> lambda_tensor']
  /\ int_tau' = 0 /\ iup' = 1 /\ trace' = <<>>
  /\ phases' = IF pc' = "aborted" THEN <<"initialize_tensors">>
                ELSE <<"initialize_tensors", "simple_update">>
  /\ simple_calls' = <<>> /\ full_calls' = <<>> /\ reports' = <<>>
  /\ ireport' = 1
  /\ next_report_step' = first_report_step(peps_parameters.num_simple_step)
  /\ UNCHANGED <<cfgVars, fs, run, clock, atSave, obsVars, outVars, mainVars>>

----------------------------------------------------------------------------
(* TeNeS::simple_update *)
(* a loop that runs one step too many *)
SimpleLoopCondInclusive == int_tau <= peps_parameters.num_simple_step

SimpleLoopCond == int_tau < peps_parameters.num_simple_step

(* a write-back that stores the second tensor at every other site *)
WriteBackEverywhere(T, source, target, t1, t2) ==
  [i \in DOMAIN T |-> IF i = source THEN t1 ELSE t2]

(* Tn[source] = Tn1_new; Tn[target] = Tn2_new; *)
WriteBack(T, source, target, t1, t2) ==
  [[T EXCEPT ![source] = t1] EXCEPT ![target] = t2]

(* a write that uses the source's leg at the target as well *)
WriteLambdaSameLeg(lam, source, source_leg, target, target_leg, lambda_c) ==
  [[lam EXCEPT ![source][source_leg] = lambda_c] EXCEPT ![target][source_leg] = lambda_c]

(* lambda_tensor[source][source_leg] = lambda_c;                           *)
(* lambda_tensor[target][target_leg] = lambda_c;                           *)
WriteLambda(lam, source, source_leg, target, target_leg, lambda_c) ==
  [[lam EXCEPT ![source][source_leg] = lambda_c] EXCEPT ![target][target_leg] = lambda_c]

(* a kernel handed the tensors simple_update was entered with *)
SimpleKernelInputsStale(source, target) ==
  [Tn1 |-> preSimple.Tn[source], Tn2 |-> preSimple.Tn[target],
   lambda1 |-> preSimple.lambda_tensor[source],
   lambda2 |-> preSimple.lambda_tensor[target]]

(* Simple_update_bond(Tn[source], Tn[target], lambda_tensor[source],       *)
(*                    lambda_tensor[target], ...)                          *)
SimpleKernelInputs(source, target) ==
  [Tn1 |-> Tn[source], Tn2 |-> Tn[target],
   lambda1 |-> lambda_tensor[source], lambda2 |-> lambda_tensor[target]]

(* the progress report at the end of Trotter step int_tau of `phase` *)
ReportDue == AtLeastInfo(peps_parameters.print_level) /\ int_tau = next_report_step

Report(phase, nsteps) ==
  IF ReportDue
  THEN /\ reports' = Append(reports, [phase |-> phase, int_tau |-> int_tau,
                                      done |-> int_tau + 1, of |-> nsteps])
       /\ ireport' = ireport + 1
       /\ next_report_step' = report_step(ireport + 1, nsteps)
  ELSE UNCHANGED <<reports, ireport, next_report_step>>

SimpleUpdateBond ==
  /\ pc = "simple_update"
  /\ SimpleLoopCond
  /\ iup <= Len(simple_updates)
  /\ LET up == simple_updates[iup]
         source == up.source_site
         source_leg == up.source_leg
         target == lattice_neighbor(source, source_leg)
         target_leg == (source_leg + 2) % 4
     IN /\ \E lambda_c \in Spectra :
             lambda_tensor' = WriteLambda(lambda_tensor, source, source_leg,
                                          target, target_leg, lambda_c)
        /\ Tn' = WriteBack(Tn, source, target, New(1), New(2))
        /\ trace' = Append(trace, Ev("simple_bond", source, source_leg))
        /\ simple_calls' = Append(simple_calls,
              [int_tau |-> int_tau, iup |-> iup, source |-> source, target |-> target,
               source_leg |-> source_leg, read |-> SimpleKernelInputs(source, target),
               Tn1_new |-> New(1), Tn2_new |-> New(2),
               Tn_after |-> Tn', lambda_after |-> lambda_tensor'])
  /\ clock' = clock + 1
  /\ iup' = iup + 1
  /\ UNCHANGED <<cfgVars, envVars, fs, pc, int_tau, run, preSimple, atSave, obsVars>>
  /\ UNCHANGED <<phases, full_calls, reports, reportVars, outVars, mainVars>>

(* the gate list is exhausted: ++int_tau *)
SimpleUpdateNextStep ==
  /\ pc = "simple_update"
  /\ SimpleLoopCond
  /\ iup > Len(simple_updates)
  /\ Report("simple_update", peps_parameters.num_simple_step)
  /\ int_tau' = int_tau + 1
  /\ iup' = 1
  /\ UNCHANGED <<cfgVars, Tn, envVars, lambda_tensor, fs, pc, run, clock, trace,
                 preSimple, atSave, obsVars>>
  /\ UNCHANGED <<phases, simple_calls, full_calls, outVars, mainVars>>

SimpleUpdateReturn ==
  /\ pc = "simple_update"
  /\ ~SimpleLoopCond
  /\ pc' = "optimize"
  /\ int_tau' = 0 /\ iup' = 1
  /\ UNCHANGED <<cfgVars, Tn, envVars, lambda_tensor, fs, run, clock, trace,
                 preSimple, atSave, obsVars>>
  /\ UNCHANGED <<histVars, reportVars, outVars, mainVars>>

----------------------------------------------------------------------------
(* TeNeS::optimize after simple_update, and the head of full_update *)
(* an optimize() that calls full_update whatever the number of steps *)
OptimizeRunsFullAlways == peps_parameters.num_full_step >= 0

OptimizeRunsFull == peps_parameters.num_full_step > 0
(* a full update that computes no environment before its only step *)
FullFirstCTMLater == peps_parameters.num_full_step > 1

FullFirstCTM == peps_parameters.num_full_step > 0

OptimizeFull ==
  /\ pc = "optimize"
  /\ IF OptimizeRunsFull
     THEN /\ pc' = "full_update"
          /\ phases' = Append(phases, "full_update")
          /\ ireport' = 1
          /\ next_report_step' = first_report_step(peps_parameters.num_full_step)
          /\ IF FullFirstCTM
             THEN /\ SetStore(update_CTM(Store, New(0)))
                  /\ clock' = clock + 1
                  /\ trace' = Append(trace, Ev("update_CTM", -1, -1))
             ELSE /\ SetStore(Store)
                  /\ UNCHANGED <<clock, trace>>
     ELSE /\ pc' = "save_tensors"
          /\ SetStore(Store)
          /\ UNCHANGED <<clock, trace, phases, reportVars>>
  /\ int_tau' = 0 /\ iup' = 1
  /\ simple_calls' = <<>>
  /\ UNCHANGED <<cfgVars, lambda_tensor, fs, run, preSimple, atSave, obsVars>>
  /\ UNCHANGED <<full_calls, reports, outVars, mainVars>>

(* TeNeS::full_update: one bond of the gate list, then the refresh of the  *)
(* environment.  A move event carries the column or row it was called on.  *)
FullLoopCond == int_tau < peps_parameters.num_full_step

(* a refresh with the columns (rows) of source and target exchanged *)
RefreshCallsSwapped(up, source, target) ==
  IF peps_parameters.Full_Use_FastFullUpdate
  THEN IF is_horizontal(up)
       THEN <<Ev("Left_move", -1, target % LX), Ev("Right_move", -1, source % LX)>>
       ELSE <<Ev("Top_move", -1, target \div LX), Ev("Bottom_move", -1, source \div LX)>>
  ELSE <<Ev("update_CTM", -1, -1)>>

RefreshCalls(up, source, target) ==
  IF peps_parameters.Full_Use_FastFullUpdate
  THEN IF is_horizontal(up)
       THEN <<Ev("Left_move", -1, source % LX), Ev("Right_move", -1, target % LX)>>
       ELSE <<Ev("Top_move", -1, source \div LX), Ev("Bottom_move", -1, target \div LX)>>
  ELSE <<Ev("update_CTM", -1, -1)>>

ApplyCall(s, e, t) ==
  CASE e.ev = "update_CTM" -> update_CTM(s, t)
    [] e.ev = "Left_move" -> Left_move(s, e.leg, t)
    [] e.ev = "Right_move" -> Right_move(s, e.leg, t)
    [] e.ev = "Top_move" -> Top_move(s, e.leg, t)
    [] e.ev = "Bottom_move" -> Bottom_move(s, e.leg, t)

RECURSIVE ApplyCalls(_, _, _)
ApplyCalls(s, calls, t) ==
  IF calls = <<>> THEN s
  ELSE ApplyCalls(ApplyCall(s, Head(calls), <<t, 0>>), Tail(calls), t + 1)

(* the ten boundary tensors handed to Full_update_bond, in the order of    *)
(* its parameters: the switch over source_leg                              *)
FullUpdateArgs(source_leg, source, target) ==
  CASE source_leg = 0 ->
         <<<<"C4", source>>, <<"C2", target>>, <<"C1", target>>, <<"C3", source>>,
           <<"eTb", source>>, <<"eTb", target>>, <<"eTl", target>>, <<"eTt", target>>,
           <<"eTt", source>>, <<"eTr", source>>>>
    [] source_leg = 1 ->
         <<<<"C4", source>>, <<"C1", target>>, <<"C2", target>>, <<"C3", source>>,
           <<"eTl", source>>, <<"eTl", target>>, <<"eTt", target>>, <<"eTr", target>>,
           <<"eTr", source>>, <<"eTb", source>>>>
    [] source_leg = 2 ->
         <<<<"C1", source>>, <<"C2", target>>, <<"C3", target>>, <<"C4", source>>,
           <<"eTt", source>>, <<"eTt", target>>, <<"eTr", target>>, <<"eTb", target>>,
           <<"eTb", source>>, <<"eTl", source>>>>
    [] source_leg = 3 ->
         <<<<"C2", source>>, <<"C3", target>>, <<"C4", target>>, <<"C1", source>>,
           <<"eTr", source>>, <<"eTr", target>>, <<"eTb", target>>, <<"eTl", target>>,
           <<"eTl", source>>, <<"eTt", source>>>>

(* a full update that stores a spectrum on the bond as simple_update does *)
FullUpdateLambdaWritten(source, source_leg, target) ==
  WriteLambda(lambda_tensor, source, source_leg, target, (source_leg + 2) % 4,
              Spectrum(One, 0))

(* lambda_tensor after a bond step of full_update: the loop body has no    *)
(* assignment to it, and target_leg is commented out                       *)
FullUpdateLambda(source, source_leg, target) == lambda_tensor

FullUpdateBond ==
  /\ pc = "full_update"
  /\ FullLoopCond
  /\ iup <= Len(full_updates)
  /\ LET up == full_updates[iup]
         source == up.source_site
         source_leg == up.source_leg
         target == lattice_neighbor(source, source_leg)
         written == [Store EXCEPT !.Tn = WriteBack(Tn, source, target, New(1), New(2))]
         calls == RefreshCalls(up, source, target)
     IN /\ SetStore(ApplyCalls(written, calls, clock + 2))
        /\ clock' = clock + 1 + Len(calls)
        /\ trace' = trace \o <<Ev("full_bond", source, source_leg)>> \o calls
        /\ full_calls' = Append(full_calls,
              [int_tau |-> int_tau, iup |-> iup, source |-> source, target |-> target,
               source_leg |-> source_leg,
               args |-> FullUpdateArgs(source_leg, source, target),
               Tn1 |-> Tn[source], Tn2 |-> Tn[target],
               Tn1_new |-> New(1), Tn2_new |-> New(2), Tn_after |-> written.Tn])
        /\ lambda_tensor' = FullUpdateLambda(source, source_leg, target)
  /\ iup' = iup + 1
  /\ UNCHANGED <<cfgVars, fs, pc, int_tau, run, preSimple, atSave, obsVars>>
  /\ UNCHANGED <<phases, simple_calls, reports, reportVars, outVars, mainVars>>

FullUpdateNextStep ==
  /\ pc = "full_update"
  /\ FullLoopCond
  /\ iup > Len(full_updates)
  /\ Report("full_update", peps_parameters.num_full_step)
  /\ int_tau' = int_tau + 1
  /\ iup' = 1
  /\ UNCHANGED <<cfgVars, Tn, envVars, lambda_tensor, fs, pc, run, clock, trace,
                 preSimple, atSave, obsVars>>
  /\ UNCHANGED <<phases, simple_calls, full_calls, outVars, mainVars>>

FullUpdateReturn ==
  /\ pc = "full_update"
  /\ ~FullLoopCond
  /\ pc' = "save_tensors"
  /\ int_tau' = 0 /\ iup' = 1
  /\ UNCHANGED <<cfgVars, Tn, envVars, lambda_tensor, fs, run, clock, trace,
                 preSimple, atSave, obsVars>>
  /\ UNCHANGED <<histVars, reportVars, outVars, mainVars>>

----------------------------------------------------------------------------
(* TeNeS::save_tensors: nothing is written for an empty save directory *)
SaveTensors ==
  /\ pc = "save_tensors"
  /\ IF peps_parameters.tensor_save_dir = ""
     THEN /\ UNCHANGED <<fs, atSave>>
          /\ trace' = Append(trace, Ev("save_tensors", -1, 0))
     ELSE /\ fs' = Dir(CheckpointOf(Store, lambda_tensor))
          /\ atSave' = [store |-> Store, lambda_tensor |-> lambda_tensor]
          /\ trace' = Append(trace, Ev("save_tensors", -1, 1))
  /\ pc' = "measure"
  /\ phases' = Append(phases, "save_tensors")
  /\ UNCHANGED <<cfgVars, Tn, envVars, lambda_tensor, int_tau, iup, run, clock,
                 preSimple, obsVars>>
  /\ UNCHANGED <<simple_calls, full_calls, reports, reportVars, outVars, mainVars>>

----------------------------------------------------------------------------
(* TeNeS::measure: the environment is recomputed first *)
MeasureCTM ==
  /\ pc = "measure"
  /\ SetStore(update_CTM(Store, New(0)))
  /\ clock' = clock + 1
  /\ trace' = Append(trace, Ev("update_CTM", -1, -1))
  /\ pc' = "measure_onesite"
  /\ phases' = Append(phases, "measure")
  /\ UNCHANGED <<cfgVars, lambda_tensor, fs, int_tau, iup, run, preSimple, atSave, obsVars>>
  /\ UNCHANGED <<simple_calls, full_calls, reports, reportVars, outVars, mainVars>>

(* A measured value: a number, or the quiet NaN.  Arithmetic on a NaN      *)
(* yields a NaN.                                                           *)
quiet_NaN == [nan |-> TRUE, v |-> 0]
Num(x) == [nan |-> FALSE, v |-> x]
isnan(a) == a.nan
Plus(a, b) == IF a.nan \/ b.nan THEN quiet_NaN ELSE Num(a.v + b.v)

RECURSIVE MaxGroup(_, _)
MaxGroup(ops, maxops) ==
  IF ops = <<>> THEN maxops
  ELSE MaxGroup(Tail(ops), IF Head(ops).group > maxops THEN Head(ops).group ELSE maxops)

num_onesite_operators == MaxGroup(onesite_operators, -1) + 1
num_twosite_operators == MaxGroup(twosite_operators, -1) + 1

(* site_ops_indices, as the constructor fills it: the index (from 0) of    *)
(* the last operator of the group at the site, -1 if there is none         *)
RECURSIVE FillSiteOps(_, _)
FillSiteOps(tab, i) ==
  IF i >= Len(onesite_operators) THEN tab
  ELSE LET op == onesite_operators[i + 1]
       IN FillSiteOps([tab EXCEPT ![op.source_site][op.group] = i], i + 1)

site_ops_indices ==
  FillSiteOps([s \in Sites |-> [g \in 0..(num_onesite_operators - 1) |-> -1]], 0)

siteoperator_index(site, group) == site_ops_indices[site][group]

(* onesite_operators[siteoperator_index(site, group)]: the reads outside   *)
(* site_ops_indices[site] and outside onesite_operators it makes, if any   *)
DerefFaults(site, group) ==
  IF group < 0 \/ group >= num_onesite_operators
  THEN <<Fault("site_ops_indices", group, num_onesite_operators)>>
  ELSE IF siteoperator_index(site, group) < 0
  THEN <<Fault("onesite_operators", siteoperator_index(site, group), Len(onesite_operators))>>
  ELSE <<>>

(* the operator the reference yields: garbage after a read outside *)
OnesiteRef(site, group) ==
  IF DerefFaults(site, group) = <<>> THEN <<"onesite", siteoperator_index(site, group)>>
  ELSE <<"garbage", group>>

(* measure_onesite: every entry starts as NaN; each operator writes the    *)
(* ratio of its contraction to the norm of its site (op.val stands for it) *)
RECURSIVE MeasureOnesiteLoop(_, _)
MeasureOnesiteLoop(obs, ops) ==
  IF ops = <<>> THEN obs
  ELSE LET op == Head(ops)
       IN MeasureOnesiteLoop([obs EXCEPT ![op.group][op.source_site] = Num(op.val)],
                             Tail(ops))

measure_onesite ==
  MeasureOnesiteLoop([g \in 0..(num_onesite_operators - 1) |-> [i \in Sites |-> quiet_NaN]],
                     onesite_operators)

MeasureOnesite ==
  /\ pc = "measure_onesite"
  /\ local_obs' = measure_onesite
  /\ trace' = Append(trace, Ev("measure_onesite", -1, -1))
  /\ pc' = "save_onesite"
  /\ UNCHANGED <<cfgVars, Tn, envVars, lambda_tensor, fs, int_tau, iup, run, clock,
                 preSimple, atSave, onesite_sum, loc_obs, iop, norms, ret,
                 contractions, warnings, correlations>>
  /\ UNCHANGED <<histVars, reportVars, outVars, mainVars>>

(* save_onesite: the inner loop over the sites of one group *)
RECURSIVE SaveOnesiteGroup(_, _, _)
SaveOnesiteGroup(obs, i, acc) ==
  IF i >= N_UNIT THEN acc
  ELSE IF isnan(obs[i]) THEN SaveOnesiteGroup(obs, i + 1, acc)
  ELSE SaveOnesiteGroup(obs, i + 1,
         [num |-> acc.num + 1, sum |-> Plus(acc.sum, obs[i]),
          rows |-> Append(acc.rows, <<i, obs[i]>>)])

SaveOnesite ==
  /\ pc = "save_onesite"
  /\ onesite_sum' = [ilops \in 0..(num_onesite_operators - 1) |->
                       SaveOnesiteGroup(local_obs[ilops], 0,
                                        [num |-> 0, sum |-> Num(0), rows |-> <<>>])]
  /\ pc' = "measure_twosite"
  /\ UNCHANGED <<cfgVars, Tn, envVars, lambda_tensor, fs, int_tau, iup, run, clock,
                 trace, preSimple, atSave, local_obs, loc_obs, iop, norms, ret,
                 contractions, warnings, correlations>>
  /\ UNCHANGED <<histVars, reportVars, outVars, mainVars>>

(* measure(): loc_obs[ilops] += onesite_obs[ilops][i] over all sites *)
RECURSIVE SumSites(_, _, _)
SumSites(obs, i, acc) ==
  IF i >= N_UNIT THEN acc ELSE SumSites(obs, i + 1, Plus(acc, obs[i]))

(* the lines of energy.dat: the energy and the sum of each group, each     *)
(* multiplied by invV = 1.0 / N_UNIT                                       *)
EnergyLines(e, sums) ==
  <<[name |-> "energy", of |-> e, times_invV |-> N_UNIT]>>
  \o [k \in 1..num_onesite_operators |->
        [name |-> "onesite_obs", of |-> <<k - 1, sums[k - 1]>>, times_invV |-> N_UNIT]]

(* energy.dat is opened, and so created, at every print level; its lines   *)
(* are written inside if (print_level >= PrintLevel::info)                 *)
WriteEnergyDat(e, sums) ==
  IF AtLeastInfo(peps_parameters.print_level) THEN File(EnergyLines(e, sums))
  ELSE File(<<>>)

(* the rest of measure(): the sums over the sites, the energy as the sum   *)
(* over twosite_obs[0], energy.dat.  twosite_obs has num_twosite_operators *)
(* elements: with none, twosite_obs[0] is a read outside the vector.       *)
MeasureEnergy ==
  /\ pc = "measure_energy"
  /\ loc_obs' = [ilops \in 0..(num_onesite_operators - 1) |->
                   SumSites(local_obs[ilops], 0, Num(0))]
  /\ IF 0 < num_twosite_operators
     THEN /\ energy' = EnergyOf(ret[0])
          /\ energy_dat' = WriteEnergyDat(energy', loc_obs')
          /\ pc' = "done"
          /\ UNCHANGED faults
     ELSE /\ faults' = Append(faults, Fault("twosite_obs", 0, num_twosite_operators))
          /\ \E outcome \in UndefinedOutcomes :
               IF outcome = "crash"
               THEN /\ pc' = "crashed"
                    /\ UNCHANGED <<energy, energy_dat>>
               ELSE /\ energy' = GarbageEnergy
                    /\ energy_dat' = WriteEnergyDat(energy', loc_obs')
                    /\ pc' = "done"
  /\ UNCHANGED <<cfgVars, Tn, envVars, lambda_tensor, fs, int_tau, iup, run, clock,
                 trace, preSimple, atSave, local_obs, onesite_sum, iop, norms, ret,
                 contractions, warnings, correlations>>
  /\ UNCHANGED <<histVars, reportVars, mainVars>>

----------------------------------------------------------------------------
(* TeNeS::measure_twosite *)
Abs(x) == IF x < 0 THEN -x ELSE x

MeasureTwositeBegin ==
  /\ pc = "measure_twosite"
  /\ ret' = [g \in 0..(num_twosite_operators - 1) |-> <<>>]
  /\ norms' = {}
  /\ iop' = 1
  /\ pc' = "measure_twosite_loop"
  /\ UNCHANGED <<cfgVars, Tn, envVars, lambda_tensor, fs, int_tau, iup, run, clock,
                 trace, preSimple, atSave, local_obs, onesite_sum, loc_obs,
                 contractions, warnings, correlations>>
  /\ UNCHANGED <<histVars, reportVars, outVars, mainVars>>

(* a limit that skips only what is too wide and too tall *)
TooLongBoth(ncol, nrow) == ncol > nmax /\ nrow > nmax

(* if (ncol > nmax || nrow > nmax) *)
TooLong(ncol, nrow) == ncol > nmax \/ nrow > nmax

(* a cluster that puts the source in the top row when the target is above *)
source_rowTop(dy, nrow) == IF dy >= 0 THEN 0 ELSE nrow - 1

source_col(dx, ncol) == IF dx >= 0 THEN 0 ELSE ncol - 1
target_col(dx, ncol) == IF dx >= 0 THEN ncol - 1 ELSE 0
source_row(dy, nrow) == IF dy >= 0 THEN nrow - 1 ELSE 0
target_row(dy, nrow) == IF dy >= 0 THEN 0 ELSE nrow - 1

(* indices[row][col], rows and columns counted from 0 *)
ClusterIndices(source, dx, dy) ==
  LET ncol == Abs(dx) + 1
      nrow == Abs(dy) + 1
  IN [row \in 0..(nrow - 1) |-> [col \in 0..(ncol - 1) |->
        lattice_other(source, col - source_col(dx, ncol), source_row(dy, nrow) - row)]]

(* op_[row][col] as first filled: the identity of the cell's site *)
IdentityOps(indices) ==
  [row \in DOMAIN indices |-> [col \in DOMAIN indices[row] |->
     <<"op_identity", indices[row][col]>>]]

(* op_[source_row][source_col] = a; op_[target_row][target_col] = b; *)
PlaceOps(op_, dx, dy, a, b) ==
  LET ncol == Abs(dx) + 1
      nrow == Abs(dy) + 1
  IN [[op_ EXCEPT ![source_row(dy, nrow)][source_col(dx, ncol)] = a]
           EXCEPT ![target_row(dy, nrow)][target_col(dx, ncol)] = b]

(* a selection that looks at adjacency before the references *)
TwositePathAdjacentFirst(op) ==
  LET ncol == Abs(op.dx) + 1
      nrow == Abs(op.dy) + 1
  IN IF nrow * ncol = 2 THEN "pair"
     ELSE IF op.ops_indices = <<>> THEN "svd" ELSE "factored"

(* which of the three evaluations an operator within the limit gets *)
TwositePath(op) ==
  LET ncol == Abs(op.dx) + 1
      nrow == Abs(op.dy) + 1
  IN IF op.ops_indices = <<>>
     THEN IF nrow * ncol = 2 THEN "pair" ELSE "svd"
     ELSE "factored"

(* C_, eTt_, eTr_, eTb_, eTl_ and Tn_ handed to Contract: the array and    *)
(* the site each slot points at                                            *)
ClusterBoundary(indices) ==
  LET nrow == Cardinality(DOMAIN indices)
      ncol == Cardinality(DOMAIN indices[0])
  IN [C |-> <<<<"C1", indices[0][0]>>, <<"C2", indices[0][ncol - 1]>>,
              <<"C3", indices[nrow - 1][ncol - 1]>>, <<"C4", indices[nrow - 1][0]>>>>,
      eTt |-> [col \in 0..(ncol - 1) |-> <<"eTt", indices[0][col]>>],
      eTr |-> [row \in 0..(nrow - 1) |-> <<"eTr", indices[row][ncol - 1]>>],
      eTb |-> [col \in 0..(ncol - 1) |-> <<"eTb", indices[nrow - 1][col]>>],
      eTl |-> [row \in 0..(nrow - 1) |-> <<"eTl", indices[row][0]>>],
      Tn |-> [row \in 0..(nrow - 1) |-> [col \in 0..(ncol - 1) |->
                <<"Tn", indices[row][col]>>]]]

(* the tensors handed to the direct contraction of a pair, laid out as the *)
(* cluster's are                                                           *)
PairBoundary(fn, indices) ==
  IF fn = "Contract_two_sites_vertical_op12"
  THEN LET top == indices[0][0]
           bottom == indices[1][0]
       IN [C |-> <<<<"C1", top>>, <<"C2", top>>, <<"C3", bottom>>, <<"C4", bottom>>>>,
           eTt |-> (0 :> <<"eTt", top>>),
           eTr |-> (0 :> <<"eTr", top>> @@ 1 :> <<"eTr", bottom>>),
           eTb |-> (0 :> <<"eTb", bottom>>),
           eTl |-> (0 :> <<"eTl", top>> @@ 1 :> <<"eTl", bottom>>),
           Tn |-> (0 :> (0 :> <<"Tn", top>>) @@ 1 :> (0 :> <<"Tn", bottom>>))]
  ELSE LET left == indices[0][0]
           right == indices[0][1]
       IN [C |-> <<<<"C1", left>>, <<"C2", right>>, <<"C3", right>>, <<"C4", left>>>>,
           eTt |-> (0 :> <<"eTt", left>> @@ 1 :> <<"eTt", right>>),
           eTr |-> (0 :> <<"eTr", right>>),
           eTb |-> (0 :> <<"eTb", left>> @@ 1 :> <<"eTb", right>>),
           eTl |-> (0 :> <<"eTl", left>>),
           Tn |-> (0 :> (0 :> <<"Tn", left>> @@ 1 :> <<"Tn", right>>))]

Call(i, f, r, ind, o, ops, w) ==
  [iop |-> i, fn |-> f, role |-> r, indices |-> ind, o |-> o, op_ |-> ops, weight |-> w,
   boundary |-> IF f = "Contract" THEN ClusterBoundary(ind) ELSE PairBoundary(f, ind)]

(* the contractions that make up `value` for the operator at index i *)
ValueCalls(i, op, ns) ==
  LET source == op.source_site
      indices == ClusterIndices(source, op.dx, op.dy)
      nrow == Abs(op.dy) + 1
      id == IdentityOps(indices)
      path == TwositePath(op)
  IN CASE path = "pair" ->
            IF nrow = 2
            THEN <<Call(i, "Contract_two_sites_vertical_op12", "value", indices,
                        IF indices[0][0] = source THEN "op" ELSE "transpose", id, <<"one">>)>>
            ELSE <<Call(i, "Contract_two_sites_horizontal_op12", "value", indices,
                        IF indices[0][0] = source THEN "op" ELSE "transpose", id, <<"one">>)>>
       [] path = "svd" ->
            [is \in 1..ns |->
               Call(i, "Contract", "value", indices, "none",
                    PlaceOps(id, op.dx, op.dy, <<"U", is - 1>>, <<"VT", is - 1>>),
                    <<"s", is - 1>>)]
       [] path = "factored" ->
            <<Call(i, "Contract", "value", indices, "none",
                   PlaceOps(id, op.dx, op.dy,
                     OnesiteRef(source, op.ops_indices[1]),
                     OnesiteRef(lattice_other(source, op.dx, op.dy), op.ops_indices[2])),
                   <<"one">>)>>

MapPut(m, k, v) == (k :> v) @@ m

(* the reads outside a container that evaluating the operator makes *)
TwositeFaults(op) ==
  IF op.ops_indices = <<>> THEN <<>>
  ELSE DerefFaults(op.source_site, op.ops_indices[1])
       \o DerefFaults(lattice_other(op.source_site, op.dx, op.dy), op.ops_indices[2])

MeasureTwositeOp ==
  /\ pc = "measure_twosite_loop"
  /\ iop <= Len(twosite_operators)
  /\ LET op == twosite_operators[iop]
         ncol == Abs(op.dx) + 1
         nrow == Abs(op.dy) + 1
     IN IF TooLong(ncol, nrow)
        THEN /\ warnings' = Append(warnings, iop)
             /\ UNCHANGED <<norms, ret, contractions, trace, faults, pc>>
        ELSE LET indices == ClusterIndices(op.source_site, op.dx, op.dy)
                 norm_key == <<indices[0][0], nrow, ncol>>
                 normCalls == IF norm_key \in norms THEN <<>>
                              ELSE <<Call(iop, "Contract", "norm", indices, "none",
                                          IdentityOps(indices), <<"one">>)>>
             IN \E ns \in (IF TwositePath(op) = "svd" THEN 1..MaxSingular ELSE {1}) :
                \E outcome \in (IF TwositeFaults(op) = <<>> THEN {"defined"}
                                ELSE UndefinedOutcomes) :
                  LET calls == ValueCalls(iop, op, ns)
                  IN /\ norms' = norms \cup {norm_key}
                     /\ faults' = faults \o TwositeFaults(op)
                     /\ UNCHANGED warnings
                     /\ IF outcome = "crash"
                        THEN /\ pc' = "crashed"
                             /\ contractions' = contractions \o normCalls
                             /\ UNCHANGED <<ret, trace>>
                        ELSE /\ pc' = pc
                             /\ contractions' = contractions \o normCalls \o calls
                             /\ ret' = [ret EXCEPT ![op.group] =
                                          MapPut(@, <<op.source_site, op.dx, op.dy>>,
                                                 [value |-> calls, norm |-> norm_key])]
                             /\ trace' = Append(trace, Ev("measure_twosite", -1, -1))
  /\ iop' = iop + 1
  /\ UNCHANGED <<cfgVars, Tn, envVars, lambda_tensor, fs, int_tau, iup, run, clock,
                 preSimple, atSave, local_obs, onesite_sum, loc_obs,
                 correlations>>
  /\ UNCHANGED <<histVars, reportVars, energy, energy_dat, mainVars>>

(* the loop is over; save_twosite writes the entries of ret *)
MeasureTwositeReturn ==
  /\ pc = "measure_twosite_loop"
  /\ iop > Len(twosite_operators)
  /\ pc' = IF corparam.r_max > 0 THEN "measure_correlation" ELSE "measure_energy"
  /\ UNCHANGED <<cfgVars, Tn, envVars, lambda_tensor, fs, int_tau, iup, run, clock,
                 trace, preSimple, atSave, obsVars>>
  /\ UNCHANGED <<histVars, reportVars, outVars, mainVars>>

----------------------------------------------------------------------------
(* TeNeS::measure_correlation.  A boundary tensor is modelled by how it    *)
(* was built: the site and operator StartCorrelation seeded it with and    *)
(* the sites Transfer absorbed since, in order.                            *)
StartCorrelation(site, o) == [start |-> site, op |-> o, absorbed |-> <<>>]
Transfer(c, site) == [c EXCEPT !.absorbed = Append(@, site)]
FinishCorrelation(c, site, o) == [boundary |-> c, site |-> site, op |-> o]

(* r_ops[left_ilop]: the right groups requested for a left group, in order *)
RECURSIVE r_ops(_, _)
r_ops(requests, left_ilop) ==
  IF requests = <<>> THEN <<>>
  ELSE (IF Head(requests)[1] = left_ilop THEN <<Head(requests)[2]>> ELSE <<>>)
       \o r_ops(Tail(requests), left_ilop)

(* the site closed against in pass r (from 0) of the loop over r *)
RightX(dir, left_x, r) == IF dir = "horizontal" THEN (left_x + r + 1) % LX ELSE left_x
RightY(dir, left_y, r) == IF dir = "horizontal" THEN left_y ELSE (left_y + r + 1) % LY
(* an offset that counts the wrap one site late *)
OffsetXLate(dir, left_x, r) == IF dir = "horizontal" THEN (left_x + r) \div LX ELSE 0
OffsetX(dir, left_x, r) == IF dir = "horizontal" THEN (left_x + r + 1) \div LX ELSE 0
OffsetY(dir, left_y, r) == IF dir = "horizontal" THEN 0 ELSE (left_y + r + 1) \div LY

CorrLoopCond(r) == r < corparam.r_max

RECURSIVE CorrLoopR(_, _, _, _, _, _, _)
CorrLoopR(dir, left_index, left_ilop, r, correlation_T, correlation_norm, out) ==
  IF ~CorrLoopCond(r) THEN out
  ELSE LET right_index == lattice_index(RightX(dir, lattice_x(left_index), r),
                                        RightY(dir, lattice_y(left_index), r))
           offset_x == OffsetX(dir, lattice_x(left_index), r)
           offset_y == OffsetY(dir, lattice_y(left_index), r)
           norm == FinishCorrelation(correlation_norm, right_index, <<"op_identity", right_index>>)
           asked == SelectSeq(r_ops(corparam.operators, left_ilop),
                              LAMBDA g : siteoperator_index(right_index, g) >= 0)
           found == [k \in 1..Len(asked) |->
                      [left_index |-> left_index, right_index |-> right_index,
                       offset_x |-> offset_x, offset_y |-> offset_y,
                       left_op |-> left_ilop, right_op |-> asked[k],
                       val |-> [value |-> FinishCorrelation(correlation_T, right_index,
                                   <<"onesite", siteoperator_index(right_index, asked[k])>>),
                                norm |-> norm]]]
       IN CorrLoopR(dir, left_index, left_ilop, r + 1,
                    Transfer(correlation_T, right_index),
                    Transfer(correlation_norm, right_index), out \o found)

(* the body of the loop over left_ilop for one left site *)
CorrelationsOf(left_index, left_ilop) ==
  IF r_ops(corparam.operators, left_ilop) = <<>> THEN <<>>
  ELSE IF siteoperator_index(left_index, left_ilop) < 0 THEN <<>>
  ELSE LET left_op == <<"onesite", siteoperator_index(left_index, left_ilop)>>
           id == <<"op_identity", left_index>>
           horizontal == CorrLoopR("horizontal", left_index, left_ilop, 0,
                                   StartCorrelation(left_index, left_op),
                                   StartCorrelation(left_index, id), <<>>)
       IN CorrLoopR("vertical", left_index, left_ilop, 0,
                    StartCorrelation(left_index, left_op),
                    StartCorrelation(left_index, id), horizontal)

RECURSIVE CorrLoopLeft(_, _, _)
CorrLoopLeft(left_index, left_ilop, out) ==
  IF left_index >= N_UNIT THEN out
  ELSE IF left_ilop >= num_onesite_operators THEN CorrLoopLeft(left_index + 1, 0, out)
  ELSE CorrLoopLeft(left_index, left_ilop + 1, out \o CorrelationsOf(left_index, left_ilop))

measure_correlation == CorrLoopLeft(0, 0, <<>>)

MeasureCorrelation ==
  /\ pc = "measure_correlation"
  /\ correlations' = measure_correlation
  /\ trace' = Append(trace, Ev("measure_correlation", -1, -1))
  /\ pc' = "measure_energy"
  /\ UNCHANGED <<cfgVars, Tn, envVars, lambda_tensor, fs, int_tau, iup, run, clock,
                 preSimple, atSave, local_obs, onesite_sum, loc_obs, iop, norms, ret,
                 contractions, warnings>>
  /\ UNCHANGED <<histVars, reportVars, outVars, mainVars>>

----------------------------------------------------------------------------
(* The program is run again on the checkpoint the run just ended saved *)
Restart ==
  /\ pc = "done"
  /\ run = 1
  /\ peps_parameters.tensor_save_dir /= ""
  /\ peps_parameters' = [peps_parameters EXCEPT
                           !.tensor_load_dir = peps_parameters.tensor_save_dir]
  /\ run' = run + 1
  /\ pc' = "construct"
  /\ local_obs' = NoneYet /\ onesite_sum' = NoneYet /\ loc_obs' = NoneYet
  /\ iop' = 1 /\ norms' = {} /\ ret' = NoneYet /\ contractions' = <<>>
  /\ warnings' = <<>> /\ correlations' = <<>>
  /\ UNCHANGED <<LX, LY, simple_updates, full_updates, onesite_operators,
                 twosite_operators, corparam, Tn, envVars, lambda_tensor, fs,
                 int_tau, iup, clock, trace, preSimple, atSave>>
  /\ energy' = NoEnergy /\ energy_dat' = NoFile /\ faults' = <<>>
  /\ UNCHANGED <<histVars, reportVars, mainVars>>

Next ==
  \/ Construct
  \/ SimpleUpdateBond \/ SimpleUpdateNextStep \/ SimpleUpdateReturn
  \/ OptimizeFull
  \/ FullUpdateBond \/ FullUpdateNextStep \/ FullUpdateReturn
  \/ SaveTensors
  \/ MeasureCTM
  \/ MeasureOnesite \/ SaveOnesite
  \/ MeasureTwositeBegin \/ MeasureTwositeOp \/ MeasureTwositeReturn
  \/ MeasureCorrelation
  \/ MeasureEnergy
  \/ Restart

Spec == Init /\ [][Next]_vars

----------------------------------------------------------------------------
(* measure() on its own: the state in which tenes() calls measure() after  *)
(* a run of no update step that saved nothing, for wider sets of operators *)
NextMeasure ==
  \/ MeasureCTM
  \/ MeasureOnesite \/ SaveOnesite
  \/ MeasureTwositeBegin \/ MeasureTwositeOp \/ MeasureTwositeReturn
  \/ MeasureCorrelation
  \/ MeasureEnergy

InitMeasure ==
  /\ LX \in {1, MaxL} /\ LY \in {1, MaxL}
  /\ simple_updates = <<>> /\ full_updates = <<>>
  /\ fs = NoDir
  /\ Tn = InitialStore.Tn
  /\ eTt = InitialStore.eTt /\ eTr = InitialStore.eTr /\ eTb = InitialStore.eTb
  /\ eTl = InitialStore.eTl /\ C1 = InitialStore.C1 /\ C2 = InitialStore.C2
  /\ C3 = InitialStore.C3 /\ C4 = InitialStore.C4
  /\ lambda_tensor = InitialLambda
  /\ pc = "measure" /\ int_tau = 0 /\ iup = 1 /\ run = 1 /\ clock = 0
  /\ trace = <<Ev("save_tensors", -1, 0)>>
  /\ preSimple = [Tn |-> InitialStore.Tn, lambda_tensor |-> InitialLambda]
  /\ atSave = NoneYet
  /\ ObsInit
  /\ RunInit /\ phases = <<"initialize_tensors", "simple_update", "save_tensors">>
  /\ MainCalledTenes

(* the options of a run of no update step that saves nothing *)
MeasureParameters(levels) ==
  [num_simple_step : {0}, num_full_step : {0}, Full_Use_FastFullUpdate : {FALSE},
   print_level : levels, tensor_load_dir : {""}, tensor_save_dir : {""}]

(* one-site operators: group 0 at every site *)
OnesiteAll == [i \in 1..N_UNIT |-> OnesiteOp(0, i - 1, 1)]

(* two-site operators: adjacent in both directions and senses, on one      *)
(* site, diagonal, the longest supported and the shortest unsupported      *)
Offsets ==
  {<<1, 0>>, <<-1, 0>>, <<0, 1>>, <<0, -1>>, <<0, 0>>, <<-1, 1>>,
   <<nmax - 1, 0>>, <<nmax, 0>>, <<0, -nmax>>}

TwositeOps ==
  {TwositeOp(g, 0, d[1], d[2], ix) :
     g \in {0, 1}, d \in Offsets, ix \in {<<>>, <<0, 0>>}}

TwositeLists == {<<a>> : a \in TwositeOps} \cup {<<a, b>> : a, b \in TwositeOps}

InitTwosite ==
  /\ InitMeasure
  /\ peps_parameters \in MeasureParameters({"info"})
  /\ onesite_operators = OnesiteAll
  /\ twosite_operators \in TwositeLists
  /\ corparam = DriverCorparam

SpecTwosite == InitTwosite /\ [][NextMeasure]_vars


(* correlations: which groups are assigned where, and which are requested *)
OnesiteLists ==
  {OnesiteAll,
   OnesiteAll \o [i \in 1..N_UNIT |-> OnesiteOp(1, i - 1, 2)],
   <<OnesiteOp(0, 0, 1), OnesiteOp(1, N_UNIT - 1, 2)>>,
   <<OnesiteOp(1, 0, 1), OnesiteOp(1, 0, 2)>>}

GroupPairs == {<<a, b>> : a, b \in {0, 1}}

Requests ==
  {<<>>} \cup {<<p>> : p \in GroupPairs} \cup {<<p, q>> : p, q \in GroupPairs}

(* a request names groups that exist *)
ValidRequests(reqs) ==
  \A k \in 1..Len(reqs) :
    reqs[k][1] < num_onesite_operators /\ reqs[k][2] < num_onesite_operators

InitCorrelation ==
  /\ InitMeasure
  /\ peps_parameters \in MeasureParameters({"info"})
  /\ onesite_operators \in OnesiteLists
  /\ twosite_operators = DriverTwosite
  /\ corparam \in [r_max : 1..MaxRadius, operators : Requests]
  /\ ValidRequests(corparam.operators)

SpecCorrelation == InitCorrelation /\ [][NextMeasure]_vars

(* operators as any caller of tenes() may hand them in: no two-site        *)
(* operator at all, and operators given as references to one-site groups   *)
(* that are assigned at both sites, at one of them, or do not exist        *)
RefOps ==
  {TwositeOp(g, 0, d[1], d[2], ix) :
     g \in {0, 1}, d \in {<<1, 0>>, <<0, 2>>},
     ix \in {<<>>, <<0, 0>>, <<0, 1>>, <<2, 0>>}}

RefLists == {<<>>} \cup {<<a>> : a \in RefOps} \cup {<<a, b>> : a, b \in RefOps}

InitOperators ==
  /\ InitMeasure
  /\ peps_parameters \in MeasureParameters(PrintLevels)
  /\ onesite_operators \in OnesiteLists
  /\ twosite_operators \in RefLists
  /\ corparam = DriverCorparam

SpecOperators == InitOperators /\ [][NextMeasure]_vars

----------------------------------------------------------------------------
(* main_impl: the command line is a sequence of arguments after the        *)
(* program name; "input.toml" is the one file that may exist.              *)
HelpOptions == {"-h", "--help"}
VersionOptions == {"-v", "--version"}
Arguments == HelpOptions \cup VersionOptions \cup {"input.toml", "other.toml"}
CommandLines == {<<>>} \cup {<<a>> : a \in Arguments} \cup {<<a, b>> : a, b \in Arguments}

Has(args, options) == \E i \in 1..Len(args) : args[i] \in options

(* an option scan that looks for the version first *)
OptionOutcomeVersionFirst(args) ==
  IF args = <<>> THEN "usage"
  ELSE IF Has(args, VersionOptions) THEN "version"
  ELSE IF Has(args, HelpOptions) THEN "usage"
  ELSE "run"

(* argc == 1, then the loop for -h/--help, then the loop for -v/--version *)
OptionOutcome(args) ==
  IF args = <<>> THEN "usage"
  ELSE IF Has(args, HelpOptions) THEN "usage"
  ELSE IF Has(args, VersionOptions) THEN "version"
  ELSE "run"

file_exists(filename) == filename = "input.toml" /\ input.exists

(* the options of the [parameter] table of the file, and PEPS_Parameters() *)
FileParameters ==
  [num_simple_step |-> 1, num_full_step |-> 1, Full_Use_FastFullUpdate |-> TRUE,
   print_level |-> "info", tensor_load_dir |-> "", tensor_save_dir |-> "ckpt"]
DefaultParameters ==
  [num_simple_step |-> 0, num_full_step |-> 0, Full_Use_FastFullUpdate |-> TRUE,
   print_level |-> "info", tensor_load_dir |-> "", tensor_save_dir |-> ""]
(* CorrelationParameter(): r_max(0) *)
DefaultCorparam == [r_max |-> 0, operators |-> <<>>]

(* the first of the tables main_impl insists on that the file lacks *)
FirstMissing(tables) ==
  IF "lattice" \notin tables THEN "lattice"
  ELSE IF "evolution" \notin tables THEN "evolution"
  ELSE IF "observable" \notin tables THEN "observable"
  ELSE "none"

MainReturn(code, message) ==
  /\ exit_code' = code
  /\ cout' = Append(cout, message)
  /\ pc' = "main_returned"

MainOptions ==
  /\ pc = "main"
  /\ IF OptionOutcome(argv) = "run"
     THEN /\ pc' = "main_input"
          /\ UNCHANGED <<exit_code, cout>>
     ELSE MainReturn(0, OptionOutcome(argv))
  /\ UNCHANGED <<cfgVars, Tn, envVars, lambda_tensor, fs, int_tau, iup, run, clock,
                 trace, preSimple, atSave, obsVars, histVars, reportVars, outVars,
                 argv, input>>

(* the input file is argv[1]: it is looked for, then parsed *)
MainInput ==
  /\ pc = "main_input"
  /\ IF ~file_exists(argv[1])
     THEN /\ MainReturn(1, "ERROR: cannot find the input file")
          /\ UNCHANGED input
     ELSE /\ input' = [input EXCEPT !.read = TRUE]
          /\ pc' = "main_tables"
          /\ UNCHANGED <<exit_code, cout>>
  /\ UNCHANGED <<cfgVars, Tn, envVars, lambda_tensor, fs, int_tau, iup, run, clock,
                 trace, preSimple, atSave, obsVars, histVars, reportVars, outVars,
                 argv>>

(* the tables, in the order main_impl asks for them, and the call of tenes() *)
MainTables ==
  /\ pc = "main_tables"
  /\ peps_parameters' = IF "parameter" \in input.tables THEN FileParameters
                        ELSE DefaultParameters
  /\ IF FirstMissing(input.tables) /= "none"
     THEN /\ MainReturn(1, <<FirstMissing(input.tables), "not found">>)
          /\ UNCHANGED corparam
     ELSE /\ corparam' = IF "correlation" \in input.tables THEN DriverCorparam
                         ELSE DefaultCorparam
          /\ pc' = "construct"
          /\ UNCHANGED <<exit_code, cout>>
  /\ UNCHANGED <<LX, LY, simple_updates, full_updates, onesite_operators,
                 twosite_operators, Tn, envVars, lambda_tensor, fs, int_tau, iup,
                 run, clock, trace, preSimple, atSave, obsVars, histVars,
                 reportVars, outVars, argv, input>>

NextMain == MainOptions \/ MainInput \/ MainTables

InitMain ==
  /\ LX = 1 /\ LY = 1
  /\ peps_parameters = DefaultParameters
  /\ simple_updates = <<Bond(0, 2)>> /\ full_updates = <<Bond(0, 2)>>
  /\ onesite_operators = DriverOnesite
  /\ twosite_operators = DriverTwosite
  /\ corparam = DefaultCorparam
  /\ fs = NoDir
  /\ Tn = InitialStore.Tn
  /\ eTt = InitialStore.eTt /\ eTr = InitialStore.eTr /\ eTb = InitialStore.eTb
  /\ eTl = InitialStore.eTl /\ C1 = InitialStore.C1 /\ C2 = InitialStore.C2
  /\ C3 = InitialStore.C3 /\ C4 = InitialStore.C4
  /\ lambda_tensor = InitialLambda
  /\ pc = "main" /\ int_tau = 0 /\ iup = 1 /\ run = 1 /\ clock = 0
  /\ trace = <<>> /\ preSimple = NoneYet /\ atSave = NoneYet
  /\ ObsInit
  /\ RunInit /\ phases = <<>>
  /\ argv \in CommandLines
  /\ input \in [exists : BOOLEAN, tables : SUBSET Tables, read : {FALSE}]
  /\ exit_code = -1 /\ cout = <<>>

SpecMain == InitMain /\ [][NextMain]_vars

----------------------------------------------------------------------------
(* Properties of main_impl, checked under SpecMain *)

MainOver == pc \in {"main_returned", "construct"}
SolverInvoked == pc = "construct"
NothingBegun == trace = <<>> /\ phases = <<>> /\ clock = 0 /\ simple_calls = <<>>
                  /\ full_calls = <<>>

(* C13: no argument, or -h/--help or -v/--version anywhere: main_impl      *)
(* returns 0 without reading an input file, and prints the usage rather    *)
(* than the version where both are asked for.  Otherwise a missing input   *)
(* file or a missing [lattice], [evolution] or [observable] table makes it *)
(* print a message and return 1 without invoking the solver; a missing     *)
(* [parameter] or [correlation] table is no error and yields the defaults. *)
C13_MainErrors ==
  /\ ~SolverInvoked => NothingBegun
  /\ MainOver =>
       IF argv = <<>> \/ Has(argv, HelpOptions)
       THEN exit_code = 0 /\ cout = <<"usage">> /\ ~input.read /\ ~SolverInvoked
       ELSE IF Has(argv, VersionOptions)
       THEN exit_code = 0 /\ cout = <<"version">> /\ ~input.read /\ ~SolverInvoked
       ELSE IF ~file_exists(argv[1])
       THEN exit_code = 1 /\ Len(cout) = 1 /\ ~input.read /\ ~SolverInvoked
       ELSE IF {"lattice", "evolution", "observable"} \ input.tables /= {}
       THEN exit_code = 1 /\ Len(cout) = 1 /\ ~SolverInvoked
       ELSE /\ SolverInvoked /\ exit_code = -1 /\ cout = <<>>
            /\ ("parameter" \notin input.tables) => peps_parameters = DefaultParameters
            /\ ("parameter" \in input.tables) => peps_parameters = FileParameters
            /\ ("correlation" \notin input.tables) => corparam = DefaultCorparam
            /\ ("correlation" \in input.tables) => corparam = DriverCorparam

C13_Witness ==
  /\ pc = "main_returned" /\ exit_code = 1 /\ input.read /\ Len(argv) = 2
  /\ input.tables = {"lattice", "correlation"}
  /\ cout = <<<<"evolution", "not found">>>>
  /\ peps_parameters = DefaultParameters

----------------------------------------------------------------------------
(* Properties of the driver, checked under Spec *)

TnWriteEvents == {"simple_bond", "full_bond"}

Range(f) == {f[k] : k \in DOMAIN f}

(* the call reads the corner and edge tensors *)
ReadsEnvironment(e) ==
  \/ e.ev \in ObservableEvents
  \/ e.ev = "full_bond"
  \/ e.ev = "save_tensors" /\ e.leg = 1

(* a renormalization pass ran before call k and no site tensor was written since *)
FreshAt(k) ==
  \E j \in 1..(k - 1) :
    /\ trace[j].ev \in PassEvents
    /\ \A m \in (j + 1)..(k - 1) : trace[m].ev \notin TnWriteEvents

(* C1: wherever the corner and edge tensors are read by an observable      *)
(* contraction or a full-update bond kernel, or persisted by save_tensors, *)
(* a renormalization pass produced them after the last write to a Tn.      *)
C1_EnvironmentNeverStale ==
  \A k \in 1..Len(trace) : ReadsEnvironment(trace[k]) => FreshAt(k)

(* C2: with num_simple_step = 0, simple_update returns with every Tn and   *)
(* every lambda spectrum as they were on entry, and made no bond step.     *)
C2_ZeroStepsIdentity ==
  (pc = "optimize" /\ peps_parameters.num_simple_step = 0) =>
    /\ Tn = preSimple.Tn
    /\ lambda_tensor = preSimple.lambda_tensor
    /\ \A k \in 1..Len(trace) : trace[k].ev /= "simple_bond"

C2_Witness ==
  /\ pc = "optimize" /\ peps_parameters.num_simple_step = 0
  /\ Len(simple_updates) = 2 /\ N_UNIT > 1 /\ run = 2

(* C3: if a full-update bond kernel is called, an update_CTM completed     *)
(* before the first such call and after every simple-update bond step.     *)
C3_CTMBeforeFullUpdate ==
  \A k \in 1..Len(trace) :
    trace[k].ev = "full_bond" =>
      \E j \in 1..(k - 1) :
        /\ trace[j].ev = "update_CTM"
        /\ \A m \in 1..Len(trace) : trace[m].ev = "simple_bond" => m < j

C3_Witness ==
  \E k, m \in 1..Len(trace) : trace[k].ev = "full_bond" /\ trace[m].ev = "simple_bond"

(* the passes made right after call k, up to the next call that is no pass *)
RECURSIVE PassesFrom(_)
PassesFrom(k) ==
  IF k > Len(trace) \/ trace[k].ev \notin PassEvents THEN <<>>
  ELSE <<trace[k]>> \o PassesFrom(k + 1)

(* the sites of the column or row a directional move was called on *)
LineOf(e) ==
  IF e.ev \in {"Left_move", "Right_move"}
  THEN {i \in Sites : i % LX = e.leg}
  ELSE {i \in Sites : i \div LX = e.leg}

(* C4 as claimed: after every full-update bond the environment is          *)
(* refreshed, by exactly one update_CTM with the fast flag off, and with   *)
(* it on by directional moves only, all on one row or column, which holds  *)
(* both sites of the bond.                                                 *)
C4_RefreshOnOneLine ==
  \A k \in 1..Len(trace) :
    trace[k].ev = "full_bond" =>
      LET passes == PassesFrom(k + 1)
          source == trace[k].site
          target == lattice_neighbor(source, trace[k].leg)
      IN IF peps_parameters.Full_Use_FastFullUpdate
         THEN /\ passes /= <<>>
              /\ \A n \in 1..Len(passes) :
                   /\ passes[n].ev \in MoveEvents
                   /\ {source, target} \subseteq LineOf(passes[n])
                   /\ LineOf(passes[n]) = LineOf(passes[1])
         ELSE passes = <<Ev("update_CTM", -1, -1)>>

(* C4 as amended: with the fast flag on the refresh is Left_move on the    *)
(* column of the source then Right_move on the column of the target for a  *)
(* horizontal bond, Top_move on the row of the source then Bottom_move on  *)
(* the row of the target for a vertical bond, and no update_CTM; with the  *)
(* flag off it is exactly one update_CTM.                                  *)
C4_RefreshAfterEachBond ==
  \A k \in 1..Len(trace) :
    trace[k].ev = "full_bond" =>
      LET passes == PassesFrom(k + 1)
          source == trace[k].site
          target == lattice_neighbor(source, trace[k].leg)
      IN IF ~peps_parameters.Full_Use_FastFullUpdate
         THEN passes = <<Ev("update_CTM", -1, -1)>>
         ELSE IF trace[k].leg \in {0, 2}
         THEN passes = <<Ev("Left_move", -1, source % LX),
                         Ev("Right_move", -1, target % LX)>>
         ELSE passes = <<Ev("Top_move", -1, source \div LX),
                         Ev("Bottom_move", -1, target \div LX)>>

C4_Witness ==
  /\ peps_parameters.Full_Use_FastFullUpdate
  /\ LX > 1 /\ LY > 1
  /\ \E k, m \in 1..Len(trace) :
       /\ trace[k].ev = "full_bond" /\ trace[k].leg \in {0, 2}
       /\ trace[m].ev = "full_bond" /\ trace[m].leg \in {1, 3}

(* C9: a store saved by save_tensors and loaded by initialize_tensors is   *)
(* the store that was saved: every Tn, edge, corner and lambda entry.      *)
C9_CheckpointRoundTrip ==
  (run = 2 /\ pc = "simple_update" /\ trace = <<>>) =>
    /\ Store = atSave.store
    /\ lambda_tensor = atSave.lambda_tensor

(* C10: a configured load directory that does not exist ends the run in    *)
(* the constructor: no update step, no environment computation, no save    *)
(* and no measurement is made.                                             *)
C10_MissingLoadDirAborts ==
  /\ (peps_parameters.tensor_load_dir /= "" /\ ~fs.exists) => pc \in {"construct", "aborted"}
  /\ pc = "aborted" =>
       /\ trace = <<>> /\ clock = 0 /\ ~fs.exists /\ atSave = NoneYet
       /\ local_obs = NoneYet /\ ret = NoneYet /\ loc_obs = NoneYet
       /\ correlations = <<>> /\ contractions = <<>>

C10_Witness == pc = "aborted" /\ peps_parameters.tensor_save_dir /= ""
                 /\ peps_parameters.num_simple_step > 0 /\ peps_parameters.num_full_step > 0

(* the phases the claim names, in the order they were entered *)
ClaimedPhases == SelectSeq(phases, LAMBDA p : p /= "save_tensors")

ExpectedPhases ==
  <<"initialize_tensors", "simple_update">>
  \o (IF peps_parameters.num_full_step > 0 THEN <<"full_update">> ELSE <<>>)
  \o <<"measure">>

(* the position in the trace at which the update phases were over *)
UpdatesOver == CHOOSE k \in 1..Len(trace) : trace[k].ev = "save_tensors"

(* C11: the phases of a run are initialization, simple update, full update *)
(* (entered if and only if num_full_step > 0) and measurement, in this     *)
(* order; every simple-update bond step precedes every full-update one and *)
(* both precede measurement; measurement calls update_CTM exactly once,    *)
(* before its first observable contraction, and from that call on makes    *)
(* only observable contractions: no Tn is written.                         *)
C11_PhaseOrder ==
  /\ ClaimedPhases = SubSeq(ExpectedPhases, 1, Len(ClaimedPhases))
  /\ pc = "done" => ClaimedPhases = ExpectedPhases
  /\ \A k, m \in 1..Len(trace) :
       (trace[k].ev = "simple_bond" /\ trace[m].ev = "full_bond") => k < m
  /\ (\E k \in 1..Len(trace) : trace[k].ev = "full_bond") => "full_update" \in Range(phases)
  /\ "measure" \in Range(phases) =>
       /\ UpdatesOver + 1 <= Len(trace)
       /\ \A k \in 1..Len(trace) :
            /\ k < UpdatesOver => trace[k].ev \notin ObservableEvents
            /\ k = UpdatesOver + 1 => trace[k].ev = "update_CTM"
            /\ k > UpdatesOver + 1 => trace[k].ev \in ObservableEvents
       /\ \A i \in Sites : Tn[i][1] < C1[i][1] /\ C1[i] = eTt[i]
  /\ "measure" \notin Range(phases) =>
       \A k \in 1..Len(trace) : trace[k].ev \notin ObservableEvents

C11_Witness ==
  /\ pc = "done" /\ Len(phases) = 5
  /\ \E k, m, n \in 1..Len(trace) :
       /\ trace[k].ev = "simple_bond" /\ trace[m].ev = "full_bond"
       /\ trace[n].ev = "measure_twosite"

----------------------------------------------------------------------------
(* Properties of the bond steps, checked under Spec *)

(* C15: after every bond step of simple_update and of full_update,         *)
(* Tn[source] is the first tensor the kernel returned and Tn[target] the   *)
(* second, unit cells of width or height 1 included.                       *)
C15_WriteBack ==
  /\ \A k \in 1..Len(simple_calls) :
       LET c == simple_calls[k]
       IN c.Tn_after[c.source] = c.Tn1_new /\ c.Tn_after[c.target] = c.Tn2_new
  /\ \A k \in 1..Len(full_calls) :
       LET c == full_calls[k]
       IN c.Tn_after[c.source] = c.Tn1_new /\ c.Tn_after[c.target] = c.Tn2_new

(* Tn and lambda_tensor as the bond step before the k-th one left them *)
BeforeSimpleCall(k) ==
  IF k = 1 THEN preSimple
  ELSE [Tn |-> simple_calls[k - 1].Tn_after,
        lambda_tensor |-> simple_calls[k - 1].lambda_after]

(* simple_update has just returned to optimize() *)
SimpleUpdateReturned == pc = "optimize"

(* C17: simple_update makes num_simple_step x |simple_updates| bond steps; *)
(* the k-th one is the bond at place ((k - 1) mod |B|) + 1 of the list in  *)
(* Trotter step (k - 1) div |B|, and it reads the site tensors and the     *)
(* lambda spectra as the bond step before it wrote them.                   *)
C17_BondStepsInOrder ==
  LET B == simple_updates
      nsteps == peps_parameters.num_simple_step
  IN pc \in {"simple_update", "optimize"} =>
       /\ SimpleUpdateReturned => Len(simple_calls) = nsteps * Len(B)
       /\ pc = "simple_update" => Len(simple_calls) = int_tau * Len(B) + iup - 1
       /\ \A k \in 1..Len(simple_calls) :
            LET c == simple_calls[k]
                before == BeforeSimpleCall(k)
            IN /\ c.int_tau = (k - 1) \div Len(B)
               /\ c.iup = ((k - 1) % Len(B)) + 1
               /\ c.source = B[c.iup].source_site
               /\ c.source_leg = B[c.iup].source_leg
               /\ c.target = lattice_neighbor(c.source, c.source_leg)
               /\ c.read.Tn1 = before.Tn[c.source]
               /\ c.read.Tn2 = before.Tn[c.target]
               /\ c.read.lambda1 = before.lambda_tensor[c.source]
               /\ c.read.lambda2 = before.lambda_tensor[c.target]

C17_Witness ==
  /\ SimpleUpdateReturned /\ peps_parameters.num_simple_step = MaxSimpleStep
  /\ Len(simple_updates) = 2 /\ Len(simple_calls) = 2 * MaxSimpleStep
  /\ simple_calls[2].read.Tn1 = simple_calls[1].Tn1_new
  /\ simple_calls[2].read.lambda2 /= preSimple.lambda_tensor[simple_calls[2].target]

(* C21: in a run that starts from the freshly initialized store (every     *)
(* lambda entry 1.0, no checkpoint loaded), at every moment the spectrum   *)
(* at (s, l) equals the one at (neighbor(s, l), (l + 2) mod 4): the two    *)
(* ends of every bond of the periodic lattice hold the same lambda.        *)
C21_SharedBondSpectrum ==
  peps_parameters.tensor_load_dir = "" =>
    \A s \in Sites : \A l \in Legs :
      lambda_tensor[s][l] = lambda_tensor[lattice_neighbor(s, l)][(l + 2) % 4]

C21_Witness ==
  /\ peps_parameters.tensor_load_dir = "" /\ pc = "optimize"
  /\ Len(simple_calls) = 2 * MaxSimpleStep /\ LX = MaxL /\ LY = MaxL
  /\ \E s \in Sites : \E l, m \in Legs :
       /\ lambda_tensor[s][l] /= InitialLambda[s][l]
       /\ lambda_tensor[s][m] /= InitialLambda[s][m]
       /\ lambda_tensor[s][l] /= lambda_tensor[s][m]
       /\ lattice_neighbor(s, l) /= lattice_neighbor(s, m)

(* a bond step of simple_update is about to be taken *)
SimpleBondNext ==
  pc = "simple_update" /\ SimpleLoopCond /\ iup <= Len(simple_updates)

(* the sites and the (site, leg) pairs that step may write *)
SimpleBondSites ==
  IF SimpleBondNext
  THEN {simple_updates[iup].source_site,
        lattice_neighbor(simple_updates[iup].source_site, simple_updates[iup].source_leg)}
  ELSE {}

SimpleBondLegs ==
  IF SimpleBondNext
  THEN {<<simple_updates[iup].source_site, simple_updates[iup].source_leg>>,
        <<lattice_neighbor(simple_updates[iup].source_site, simple_updates[iup].source_leg),
          (simple_updates[iup].source_leg + 2) % 4>>}
  ELSE {}

(* C22: a step of simple_update changes no site tensor but Tn[source] and  *)
(* Tn[target] of the bond it is at, no lambda spectrum but the one at      *)
(* (source, source_leg) and the one at (target, (source_leg + 2) mod 4),   *)
(* and no corner or edge tensor; between bond steps it changes none.       *)
C22_SimpleUpdateFrame ==
  [][pc = "simple_update" =>
       /\ \A i \in Sites : i \notin SimpleBondSites => Tn'[i] = Tn[i]
       /\ \A i \in Sites : \A l \in Legs :
            <<i, l>> \notin SimpleBondLegs => lambda_tensor'[i][l] = lambda_tensor[i][l]
       /\ envVars' = envVars]_vars

C22_Witness ==
  /\ pc = "simple_update" /\ Len(simple_calls) = 1 /\ LX = MaxL /\ LY = MaxL
  /\ LET c == simple_calls[1]
     IN /\ c.source /= c.target
        /\ Tn[c.source] = c.Tn1_new /\ Tn[c.target] = c.Tn2_new
        /\ lambda_tensor[c.source][c.source_leg] /= preSimple.lambda_tensor[c.source][c.source_leg]
        /\ \E i \in Sites : i \notin {c.source, c.target} /\ Tn[i] = preSimple.Tn[i]
        /\ \A l \in Legs : l /= c.source_leg =>
             lambda_tensor[c.source][l] = preSimple.lambda_tensor[c.source][l]

(* C23: from the return of simple_update to the end of full_update no step *)
(* changes a lambda spectrum, for every number of steps, gate list and     *)
(* fast-update setting; save_tensors, which follows, persists the spectra  *)
(* it finds, which are therefore those simple_update left.                 *)
C23_FullUpdateKeepsLambda ==
  [][/\ pc \in {"optimize", "full_update", "save_tensors"} =>
          lambda_tensor' = lambda_tensor
     /\ (pc = "save_tensors" /\ peps_parameters.tensor_save_dir /= "") =>
          /\ atSave'.lambda_tensor = lambda_tensor
          /\ fs'.files.lambda = CheckpointOf(Store, lambda_tensor).lambda]_vars

C23_Witness ==
  /\ pc = "measure" /\ atSave /= NoneYet
  /\ peps_parameters.num_full_step = MaxFullStep /\ peps_parameters.num_simple_step > 0
  /\ Len(full_calls) = 2 * MaxFullStep
  /\ atSave.lambda_tensor /= InitialLambda
  /\ atSave.lambda_tensor = lambda_tensor
  /\ LET c == full_calls[Len(full_calls)]
     IN c.source /= c.target /\ atSave.store.Tn[c.target] = c.Tn2_new

(* the 10% boundaries of nsteps steps: floor(k * nsteps / 10), k = 1..10 *)
Boundaries(nsteps) == {(k * nsteps) \div 10 : k \in 1..10} \ {0}

(* the numbers of completed steps after which `phase` reported progress *)
ReportedAfter(phase) ==
  {reports[k].done : k \in {j \in 1..Len(reports) : reports[j].phase = phase}}

SimpleUpdateOver == pc \notin {"construct", "simple_update", "aborted"}

FullUpdateOver ==
  /\ "full_update" \in Range(phases)
  /\ pc \notin {"construct", "simple_update", "optimize", "full_update", "aborted"}

(* C18: at print level info, simple_update and full_update of nsteps >= 1  *)
(* steps report progress after the step that completes each boundary       *)
(* floor(k * nsteps / 10), k = 1..10: the last step is always reported and *)
(* no boundary is skipped, also when nsteps < 10.                          *)
C18_ProgressReports ==
  AtLeastInfo(peps_parameters.print_level) =>
    /\ SimpleUpdateOver =>
         Boundaries(peps_parameters.num_simple_step) \subseteq ReportedAfter("simple_update")
    /\ FullUpdateOver =>
         Boundaries(peps_parameters.num_full_step) \subseteq ReportedAfter("full_update")

(* The cluster of a bond seen in the lattice frame: directions are <<x, y>>, *)
(* x to the right and y to the top; leg 0 points left, 1 up, 2 right and   *)
(* 3 down.                                                                 *)
LegDirection(leg) ==
  CASE leg = 0 -> <<-1, 0>> [] leg = 1 -> <<0, 1>>
    [] leg = 2 -> <<1, 0>>  [] leg = 3 -> <<0, -1>>

BoundaryName(d) ==
  CASE d = <<-1, 1>> -> "C1"  [] d = <<1, 1>> -> "C2"
    [] d = <<1, -1>> -> "C3"  [] d = <<-1, -1>> -> "C4"
    [] d = <<0, 1>> -> "eTt"  [] d = <<1, 0>> -> "eTr"
    [] d = <<0, -1>> -> "eTb" [] d = <<-1, 0>> -> "eTl"

(* q quarter turns counter-clockwise *)
RECURSIVE Turned(_, _)
Turned(d, q) == IF q = 0 THEN d ELSE Turned(<<-d[2], d[1]>>, q - 1)

(* the rigid rotation that carries "source left of target" to the bond *)
QuarterTurns(leg) == CHOOSE q \in 0..3 : Turned(<<1, 0>>, q) = LegDirection(leg)

(* the canonical positions: those of source_leg 2 *)
CanonicalPositions ==
  <<[d |-> <<-1, 1>>, of |-> "source"], [d |-> <<1, 1>>, of |-> "target"],
    [d |-> <<1, -1>>, of |-> "target"], [d |-> <<-1, -1>>, of |-> "source"],
    [d |-> <<0, 1>>, of |-> "source"],  [d |-> <<0, 1>>, of |-> "target"],
    [d |-> <<1, 0>>, of |-> "target"],  [d |-> <<0, -1>>, of |-> "target"],
    [d |-> <<0, -1>>, of |-> "source"], [d |-> <<-1, 0>>, of |-> "source"]>>

RotatedCluster(leg, source, target) ==
  [k \in 1..Len(CanonicalPositions) |->
     <<BoundaryName(Turned(CanonicalPositions[k].d, QuarterTurns(leg))),
       IF CanonicalPositions[k].of = "source" THEN source ELSE target>>]

(* C16: for every source_leg the ten boundary tensors handed to the        *)
(* full-update kernel are those found at the canonical positions of        *)
(* source_leg 2 after the cluster is rotated so that the source is left of *)
(* the target: the outer corners, and the edges not facing the bond.       *)
C16_RigidRotation ==
  \A k \in 1..Len(full_calls) :
    LET c == full_calls[k]
    IN c.args = RotatedCluster(c.source_leg, c.source, c.target)

----------------------------------------------------------------------------
(* Properties of the one-site observables, checked under Spec *)

Assigned(site, g) ==
  \E k \in 1..Len(onesite_operators) :
    onesite_operators[k].group = g /\ onesite_operators[k].source_site = site

RECURSIVE DefinedSum(_, _)
DefinedSum(obs, i) ==
  IF i >= N_UNIT THEN 0
  ELSE (IF obs[i].nan THEN 0 ELSE obs[i].v) + DefinedSum(obs, i + 1)

(* C5: a (group, site) pair with no operator is reported as NaN and is     *)
(* left out of every aggregate: the sums of save_onesite and the sums that *)
(* measure() turns into densities are sums over the defined entries.       *)
C5_UndefinedExcluded ==
  pc = "done" =>
    \A g \in 0..(num_onesite_operators - 1) :
      /\ \A i \in Sites : isnan(local_obs[g][i]) <=> ~Assigned(i, g)
      /\ onesite_sum[g].sum = Num(DefinedSum(local_obs[g], 0))
      /\ loc_obs[g] = Num(DefinedSum(local_obs[g], 0))

----------------------------------------------------------------------------
(* Properties of measure_twosite, checked under SpecTwosite *)

(* how many operators the loop of measure_twosite has been through *)
Handled ==
  IF pc = "measure_twosite_loop" THEN iop - 1
  ELSE IF pc \in {"measure_correlation", "measure_energy", "done"}
  THEN Len(twosite_operators) ELSE 0

KeyOf(op) == <<op.source_site, op.dx, op.dy>>
ExceedsBlock(op) == Abs(op.dx) + 1 > 4 \/ Abs(op.dy) + 1 > 4
WarnedAbout(i) == \E k \in 1..Len(warnings) : warnings[k] = i
CallsFor(i) == SelectSeq(contractions, LAMBDA c : c.iop = i)
ValueCallsFor(i) == SelectSeq(contractions, LAMBDA c : c.iop = i /\ c.role = "value")

(* C6: an operator wider or taller than 4 sites gets a warning, no entry   *)
(* and no contraction, and the loop goes on; every operator within the     *)
(* limit gets its entry, and the result holds no other entry.              *)
C6_TooLongSkipped ==
  Handled > 0 =>
    /\ \A i \in 1..Handled :
         LET op == twosite_operators[i]
         IN IF ExceedsBlock(op)
            THEN /\ WarnedAbout(i)
                 /\ CallsFor(i) = <<>>
                 /\ KeyOf(op) \notin DOMAIN ret[op.group]
            ELSE /\ ~WarnedAbout(i)
                 /\ KeyOf(op) \in DOMAIN ret[op.group]
                 /\ ValueCallsFor(i) /= <<>>
    /\ \A g \in DOMAIN ret :
         DOMAIN ret[g] = {KeyOf(twosite_operators[i]) :
                            i \in {j \in 1..Handled :
                                     /\ twosite_operators[j].group = g
                                     /\ ~ExceedsBlock(twosite_operators[j])}}

C6_Witness ==
  /\ pc = "done" /\ Len(twosite_operators) = 2
  /\ ExceedsBlock(twosite_operators[1]) /\ ~ExceedsBlock(twosite_operators[2])
  /\ twosite_operators[1].group = twosite_operators[2].group
  /\ warnings = <<1>>
  /\ DOMAIN ret[twosite_operators[2].group] = {KeyOf(twosite_operators[2])}

(* the cells of the source and of the target in the cluster of an operator *)
SourceCell(op) == <<IF op.dy >= 0 THEN Abs(op.dy) ELSE 0, IF op.dx >= 0 THEN 0 ELSE Abs(op.dx)>>
TargetCell(op) == <<IF op.dy >= 0 THEN 0 ELSE Abs(op.dy), IF op.dx >= 0 THEN Abs(op.dx) ELSE 0>>

(* the grid of operators has a at the source, b at the target (b where     *)
(* the two are one cell) and an identity in every other cell               *)
GridHolds(grid, op, a, b) ==
  /\ DOMAIN grid = 0..Abs(op.dy)
  /\ \A row \in DOMAIN grid :
       /\ DOMAIN grid[row] = 0..Abs(op.dx)
       /\ \A col \in DOMAIN grid[row] :
            IF <<row, col>> = TargetCell(op) THEN grid[row][col] = b
            ELSE IF <<row, col>> = SourceCell(op) THEN grid[row][col] = a
            ELSE grid[row][col][1] = "op_identity"

ReferenceAt(site, g) ==
  <<"onesite", CHOOSE k \in 0..(Len(onesite_operators) - 1) :
                 /\ onesite_operators[k + 1].group = g
                 /\ onesite_operators[k + 1].source_site = site
                 /\ \A m \in (k + 1)..(Len(onesite_operators) - 1) :
                      ~(onesite_operators[m + 1].group = g
                        /\ onesite_operators[m + 1].source_site = site)>>

IsPair(calls) ==
  /\ Len(calls) = 1
  /\ calls[1].fn \in {"Contract_two_sites_horizontal_op12", "Contract_two_sites_vertical_op12"}
  /\ calls[1].o \in {"op", "transpose"}

IsFactored(calls, op) ==
  /\ Len(calls) = 1
  /\ calls[1].fn = "Contract"
  /\ calls[1].weight = <<"one">>
  /\ GridHolds(calls[1].op_, op,
               ReferenceAt(op.source_site, op.ops_indices[1]),
               ReferenceAt(lattice_other(op.source_site, op.dx, op.dy), op.ops_indices[2]))

IsSVDSum(calls, op) ==
  /\ Len(calls) >= 1
  /\ \A k \in 1..Len(calls) :
       /\ calls[k].fn = "Contract"
       /\ calls[k].weight = <<"s", k - 1>>
       /\ GridHolds(calls[k].op_, op, <<"U", k - 1>>, <<"VT", k - 1>>)

Adjacent(op) == (Abs(op.dx) + 1) * (Abs(op.dy) + 1) = 2

(* C7 as claimed: every adjacent operator is contracted directly as a      *)
(* pair; a longer-range operator given as two one-site references is one   *)
(* contraction with these at source and target; any other is the sum over  *)
(* its SVD terms.                                                          *)
C7_AdjacentAlwaysDirect ==
  \A i \in 1..Handled :
    LET op == twosite_operators[i]
        calls == ValueCallsFor(i)
    IN ~ExceedsBlock(op) =>
         IF Adjacent(op) THEN IsPair(calls)
         ELSE IF op.ops_indices /= <<>> THEN IsFactored(calls, op)
         ELSE IsSVDSum(calls, op)

(* C7 as amended: an operator given as two one-site references, adjacent   *)
(* or not, is one contraction with these at source and target; an operator *)
(* without references is contracted directly as a pair when adjacent and   *)
(* is the sum over its SVD terms otherwise.                                *)
C7_PathPerOperator ==
  \A i \in 1..Handled :
    LET op == twosite_operators[i]
        calls == ValueCallsFor(i)
    IN ~ExceedsBlock(op) =>
         IF op.ops_indices /= <<>> THEN IsFactored(calls, op)
         ELSE IF Adjacent(op) THEN IsPair(calls)
         ELSE IsSVDSum(calls, op)

C7_Witness ==
  /\ pc = "done" /\ Len(twosite_operators) = 2
  /\ Adjacent(twosite_operators[1]) /\ twosite_operators[1].ops_indices /= <<>>
  /\ IsFactored(ValueCallsFor(1), twosite_operators[1])
  /\ twosite_operators[2].ops_indices = <<>>
  /\ Abs(twosite_operators[2].dx) = nmax - 1
  /\ Len(ValueCallsFor(2)) = MaxSingular

(* the lattice offset of the cluster's top-left cell from the source *)
LeftmostDx(op) == IF op.dx < 0 THEN op.dx ELSE 0
TopmostDy(op) == IF op.dy > 0 THEN op.dy ELSE 0

(* the site at cell (row, col) of the rectangle spanned by source and      *)
(* target: columns go right from the leftmost, rows go down from the top   *)
RectangleSite(op, row, col) ==
  lattice_other(op.source_site, LeftmostDx(op) + col, TopmostDy(op) - row)

(* C24: every contraction made for a supported two-site operator is on the *)
(* (|dy| + 1) x (|dx| + 1) rectangle spanned by source and target: the     *)
(* source's cell holds the source, the target's cell other(source, dx,     *)
(* dy), cell (row, col) the site col - source_col to the right of and      *)
(* source_row - row above the source, and the corners and edges are those  *)
(* of the boundary cells (C1 top-left, C2 top-right, C3 bottom-right, C4   *)
(* bottom-left, eTt of row 0, eTb of the last row, eTl of column 0, eTr of *)
(* the last column).                                                       *)
C24_ClusterIsRectangle ==
  \A k \in 1..Len(contractions) :
    LET c == contractions[k]
        op == twosite_operators[c.iop]
        nrow == Abs(op.dy) + 1
        ncol == Abs(op.dx) + 1
        cell == c.indices
    IN /\ DOMAIN cell = 0..(nrow - 1)
       /\ \A row \in 0..(nrow - 1) :
            /\ DOMAIN cell[row] = 0..(ncol - 1)
            /\ \A col \in 0..(ncol - 1) :
                 /\ cell[row][col] = RectangleSite(op, row, col)
                 /\ cell[row][col] =
                      lattice_other(op.source_site, col - SourceCell(op)[2],
                                    SourceCell(op)[1] - row)
                 /\ c.boundary.Tn[row][col] = <<"Tn", RectangleSite(op, row, col)>>
            /\ c.boundary.eTl[row] = <<"eTl", RectangleSite(op, row, 0)>>
            /\ c.boundary.eTr[row] = <<"eTr", RectangleSite(op, row, ncol - 1)>>
       /\ \A col \in 0..(ncol - 1) :
            /\ c.boundary.eTt[col] = <<"eTt", RectangleSite(op, 0, col)>>
            /\ c.boundary.eTb[col] = <<"eTb", RectangleSite(op, nrow - 1, col)>>
       /\ DOMAIN c.boundary.eTt = 0..(ncol - 1) /\ DOMAIN c.boundary.eTb = 0..(ncol - 1)
       /\ DOMAIN c.boundary.eTl = 0..(nrow - 1) /\ DOMAIN c.boundary.eTr = 0..(nrow - 1)
       /\ c.boundary.C = <<<<"C1", RectangleSite(op, 0, 0)>>,
                           <<"C2", RectangleSite(op, 0, ncol - 1)>>,
                           <<"C3", RectangleSite(op, nrow - 1, ncol - 1)>>,
                           <<"C4", RectangleSite(op, nrow - 1, 0)>>>>
       /\ cell[SourceCell(op)[1]][SourceCell(op)[2]] = op.source_site
       /\ cell[TargetCell(op)[1]][TargetCell(op)[2]] =
            lattice_other(op.source_site, op.dx, op.dy)

C24_Witness ==
  /\ pc = "done" /\ LX = MaxL /\ LY = MaxL /\ Len(twosite_operators) = 2
  /\ twosite_operators[1].dx = -1 /\ twosite_operators[1].dy = 1
  /\ twosite_operators[2].dx = nmax - 1
  /\ \E k, m \in 1..Len(contractions) :
       /\ contractions[k].iop = 1 /\ contractions[k].role = "value"
       /\ contractions[k].indices[0][0] /= twosite_operators[1].source_site
       /\ contractions[k].indices[1][1] = twosite_operators[1].source_site
       /\ contractions[m].iop = 2 /\ contractions[m].role = "norm"
       /\ contractions[m].boundary.eTt[1] /= contractions[m].boundary.eTt[0]
       /\ contractions[m].boundary.C[2] = <<"C2", contractions[m].indices[0][nmax - 1]>>

IsPairCall(c) ==
  /\ c.role = "value"
  /\ c.fn \in {"Contract_two_sites_horizontal_op12", "Contract_two_sites_vertical_op12"}

(* C25: in the direct contraction of an adjacent pair the operator is      *)
(* passed unchanged exactly when the source is the left (horizontal) or    *)
(* top (vertical) cell of the pair, and with the indices of its two sites  *)
(* swapped otherwise, for every sign of dx or dy and every unit cell, of   *)
(* width or height 1 included.                                             *)
C25_OperatorFollowsSource ==
  \A k \in 1..Len(contractions) :
    LET c == contractions[k]
        op == twosite_operators[c.iop]
    IN IsPairCall(c) =>
         c.o = IF SourceCell(op) = <<0, 0>> THEN "op" ELSE "transpose"

----------------------------------------------------------------------------
(* Properties of measure() on any operators, checked under SpecOperators *)

(* the sum over the group-0 two-site observables; no observable, no term *)
GroupZeroTerms == IF 0 < num_twosite_operators THEN ret[0] ELSE <<>>

(* C12: on every completed run, at every print level, energy.dat holds the *)
(* energy density (the sum over the group-0 two-site observables over      *)
(* N_UNIT) and the density of every one-site group.                        *)
C12_EnergyDatWritten ==
  pc = "done" =>
    /\ energy_dat.exists
    /\ energy_dat.lines = EnergyLines(EnergyOf(GroupZeroTerms), loc_obs)

(* C19: measure() reads twosite_obs[0] only when twosite_obs has an        *)
(* element: it makes no read outside the vector, whatever the operators.   *)
C19_TwositeObsInRange ==
  \A k \in 1..Len(faults) : faults[k].what /= "twosite_obs"

(* C20: every one-site operator measure_twosite dereferences for an        *)
(* operator given in factored form exists: the group is below              *)
(* num_onesite_operators and the index found is not -1, at the source and  *)
(* at the target.                                                          *)
C20_ReferencesExist ==
  \A k \in 1..Len(faults) :
    faults[k].what \notin {"site_ops_indices", "onesite_operators"}

----------------------------------------------------------------------------
(* Properties of measure_correlation, checked under SpecCorrelation *)

Groups == 0..(num_onesite_operators - 1)
HasRequests(g) == \E k \in 1..Len(corparam.operators) : corparam.operators[k][1] = g
TimesRequested(lop, g) ==
  Cardinality({k \in 1..Len(corparam.operators) : corparam.operators[k] = <<lop, g>>})

(* how far right (up) of its left site an entry lies *)
DisplacementX(e) == lattice_x(e.right_index) + e.offset_x * LX - lattice_x(e.left_index)
DisplacementY(e) == lattice_y(e.right_index) + e.offset_y * LY - lattice_y(e.left_index)

(* the site k steps right (up) of a site *)
StepsRight(site, k) == lattice_index((lattice_x(site) + k) % LX, lattice_y(site))
StepsUp(site, k) == lattice_index(lattice_x(site), (lattice_y(site) + k) % LY)

EntryAtRadius(e, r) ==
  LET b == e.val.value.boundary
  IN /\ b.start = e.left_index
     /\ Len(b.absorbed) = r - 1
     /\ e.val.value.site = e.right_index
     /\ \/ /\ DisplacementX(e) = r /\ DisplacementY(e) = 0
           /\ e.right_index = StepsRight(e.left_index, r)
           /\ e.offset_x = (lattice_x(e.left_index) + r) \div LX /\ e.offset_y = 0
           /\ \A k \in 1..(r - 1) : b.absorbed[k] = StepsRight(e.left_index, k)
        \/ /\ DisplacementY(e) = r /\ DisplacementX(e) = 0
           /\ e.right_index = StepsUp(e.left_index, r)
           /\ e.offset_y = (lattice_y(e.left_index) + r) \div LY /\ e.offset_x = 0
           /\ \A k \in 1..(r - 1) : b.absorbed[k] = StepsUp(e.left_index, k)

EntriesAt(left, lop, dx, dy, g) ==
  {k \in 1..Len(correlations) :
     /\ correlations[k].left_index = left /\ correlations[k].left_op = lop
     /\ correlations[k].right_op = g
     /\ DisplacementX(correlations[k]) = dx /\ DisplacementY(correlations[k]) = dy}

(* C8: for every left site, every left group assigned there that has       *)
(* requested right groups, both directions and every radius r in 1..r_max, *)
(* the boundary is closed at the site r steps away after r - 1 transfer    *)
(* steps; the entry records that site and the number of wraps as offset,   *)
(* so that right + offset * L - left = r; there is one entry per requested *)
(* right group assigned at the right site, and no other entry.             *)
C8_CorrelationRadii ==
  pc \in {"measure_energy", "done"} =>
    /\ \A k \in 1..Len(correlations) :
         LET e == correlations[k]
         IN /\ Assigned(e.left_index, e.left_op)
            /\ Assigned(e.right_index, e.right_op)
            /\ TimesRequested(e.left_op, e.right_op) > 0
            /\ \E r \in 1..corparam.r_max : EntryAtRadius(e, r)
    /\ \A left \in Sites : \A lop \in Groups :
         (Assigned(left, lop) /\ HasRequests(lop)) =>
           \A r \in 1..corparam.r_max : \A g \in Groups :
             /\ Cardinality(EntriesAt(left, lop, r, 0, g)) =
                  IF Assigned(StepsRight(left, r), g) THEN TimesRequested(lop, g) ELSE 0
             /\ Cardinality(EntriesAt(left, lop, 0, r, g)) =
                  IF Assigned(StepsUp(left, r), g) THEN TimesRequested(lop, g) ELSE 0

C8_Witness ==
  /\ pc = "done" /\ LX = MaxL /\ LY = MaxL /\ corparam.r_max = MaxRadius
  /\ \E k, m \in 1..Len(correlations) :
       /\ correlations[k].offset_x > 0 /\ correlations[k].left_op /= correlations[k].right_op
       /\ correlations[m].offset_y > 0 /\ Len(correlations[m].val.value.boundary.absorbed) = MaxRadius - 1

====
